---- MODULE Spec2Model ----
(***************************************************************************)
(* Model of the lauterbach.trace32.rcl client: the Link/Communication      *)
(* transport (hlinknet.py), the request/response engine of Library         *)
(* (_library.py), Debugger.connect (rcl.py), the direct-access bundle      *)
(* (_directaccess.py), the memory bundle (_memory_bundle.py) and the       *)
(* serialize/deserialize methods of Address, Breakpoint, Symbol and        *)
(* Register (_address.py, _breakpoint.py, _symbol.py, _register.py).       *)
(*                                                                         *)
(* Byte strings are sequences of integers in 0..255.  Exceptions are the   *)
(* names of their classes.                                                 *)
(***************************************************************************)
EXTENDS Integers, Sequences, FiniteSets, TLC

VARIABLES
    \* ---- CommunicationBase / CommunicationTcp (hlinknet.py) ----
    socket,            \* _socket: "None", "connected" or "unconnected"
    socket_content,    \* reassembly buffer
    response_queue,    \* _response_queue
    notify_queue,      \* _notify_queue
    reads,             \* the peer's byte stream, cut as recvfrom returns it:
                       \* [pending, done], the pieces to come and those returned
    \* ---- Link / Library ----
    message_id,        \* Link._message_id
    pc,                \* position of the caller: "idle" or "receive"
    args,              \* the arguments of the last generic_api_call
    recv_message_id,   \* the message_id argument of the receive() in progress
    send_data,         \* the envelope built by the last generic_api_call
    wire,              \* the last frame CommunicationTcp.transmit put on the socket
    result,            \* outcome of the last finished call
    \* ---- Debugger.connect ----
    dbg,               \* position in Debugger.__init__/connect
    ops,               \* what Debugger.connect has done so far, in order
    \* ---- CommunicationUdp.sync ----
    sync_stack,        \* activation records of sync(), innermost last
    sync_max,          \* maxTries of the outermost sync()
    sync_recvd,        \* datagrams recvfrom returned since the outermost sync() began
    sync_sent,         \* datagrams sent since the outermost sync() began
    sync_result,       \* "none", "True" or the exception raised
    receive_block_id,  \* _receive_block_id
    \* ---- DirectAccessBundle ----
    access_list,       \* _access_list
    release_debug_port,
    gen_pc,            \* position of the _get_requests generator / _execute
    gen_idx,           \* accesses consumed by the for loop of _get_requests
    request,           \* the DirectAccessBundleRequest being filled
    yielded,           \* the requests yielded so far, in order
    \* ---- DirectAccessBundle._execute ----
    exec_pc,           \* position of _execute: "idle", "call" (inside
                       \* t32_bundledaccess) or "done"
    exec_result,       \* outcome of _execute
    results,           \* the local results of _execute
    transmitted,       \* requests of the bundle that were put on the socket
    \* ---- MemoryAccessBundle, Library.t32_transfermemorybundleobj ----
    mem_access_list,   \* access_list
    mem_pc,            \* position of t32_transfermemorybundleobj: "idle", "call"
                       \* (inside generic_api_call) or "done"
    mem_result,        \* outcome of t32_transfermemorybundleobj
    mem_results,       \* the list it returned
    \* ---- Register ----
    reg,               \* the fields of a Register: core, name, unit, value, fvalue
    reg_op,            \* the last operation on it and its argument
    reg_raised,        \* the exception that operation raised, or ""
    \* ---- serialize / deserialize of Address, Breakpoint, Symbol, Register ----
    codec,             \* the class whose methods run
    obj,               \* the object serialize is called on
    record,            \* the bytes deserialize is called on
    dec,               \* the call of deserialize: its position pc, its locals
                       \* and the fields it has assigned
    \* ---- a method that makes several requests ----
    method,            \* the method running: its name, its position pc, its
                       \* arguments and locals
    method_result,     \* outcome of the method
    method_requests    \* the envelopes it put on the socket, in order

linkVars   == <<socket, socket_content, response_queue, notify_queue, reads,
                message_id, pc, args, recv_message_id, send_data, wire, result, dbg, ops>>
syncVars   == <<sync_stack, sync_max, sync_recvd, sync_sent, sync_result, receive_block_id>>
bundleVars == <<access_list, release_debug_port, gen_pc, gen_idx, request, yielded>>
execVars   == <<exec_pc, exec_result, results, transmitted>>
memVars    == <<mem_access_list, mem_pc, mem_result, mem_results>>
regVars    == <<reg, reg_op, reg_raised>>
codecVars  == <<codec, obj, record, dec>>
methodVars == <<method, method_result, method_requests>>
objVars    == <<memVars, regVars, codecVars, methodVars>>
vars       == <<linkVars, syncVars, bundleVars, execVars, objVars>>
\* the link but its socket handle
linkVars_but_socket == <<socket_content, response_queue, notify_queue, reads, message_id, pc,
                         args, recv_message_id, send_data, wire, result, dbg, ops>>

-----------------------------------------------------------------------------
(* Bounds of the model *)

\* calls of generic_api_call in one behaviour of Spec
MaxCalls == 6
\* calls in one behaviour of SpecIds: enough for the counter to pass 255
MaxIdCalls == 257
\* notifications left in the notification queue
MaxNotify == 1
\* calls in one behaviour of SpecEnvelope
MaxEnvelopeCalls == 2
\* longest payload of a frame in SpecTcp
MaxFrameLen == 9
\* largest maxTries passed to CommunicationUdp.sync
MaxTries == 3
\* nested activations of sync() beyond which Python raises RecursionError
RecursionLimit == 4
\* accesses added to one DirectAccessBundle
MaxAccesses == 3
\* accesses added to one MemoryAccessBundle
MaxMemAccesses == 2

-----------------------------------------------------------------------------
(* Python helpers *)

Min(a, b) == IF a < b THEN a ELSE b

\* s[from:to]
Slice(s, from, to) == SubSeq(s, from + 1, Min(to, Len(s)))

\* s[from:]
SliceFrom(s, from) == SubSeq(s, from + 1, Len(s))

RECURSIVE int_from_bytes(_)
\* int.from_bytes(s, byteorder="little")
int_from_bytes(s) == IF s = <<>> THEN 0 ELSE Head(s) + 256 * int_from_bytes(Tail(s))

RECURSIVE to_bytes(_, _)
\* n.to_bytes(k, "little") / struct.pack "<H", "<I", "<Q"
to_bytes(n, k) == IF k = 0 THEN <<>> ELSE <<n % 256>> \o to_bytes(n \div 256, k - 1)

\* struct.pack "{n}x"
Zeros(n) == [i \in 1..n |-> 0]

RECURSIVE Concat(_)
\* b"".join(ss)
Concat(ss) == IF ss = <<>> THEN <<>> ELSE Head(ss) \o Concat(Tail(ss))

\* sequences over S of length at most n
SeqUpTo(S, n) == UNION {[1..k -> S] : k \in 0..n}

RECURSIVE encode(_)
\* str.encode(): UTF-8; a str is the sequence of its code points, below 0x10000
encode(str) ==
    IF str = <<>> THEN <<>>
    ELSE LET c == Head(str)
         IN (IF c < 128 THEN <<c>>
             ELSE IF c < 2048 THEN <<192 + (c \div 64), 128 + (c % 64)>>
             ELSE <<224 + (c \div 4096), 128 + ((c \div 64) % 64), 128 + (c % 64)>>)
                \o encode(Tail(str))

\* a continuation byte of UTF-8 at position i of b
Continuation(b, i) == i <= Len(b) /\ b[i] >= 128 /\ b[i] < 192

RECURSIVE decode(_)
\* bytes.decode(): [raised, str]
decode(b) ==
    IF b = <<>> THEN [raised |-> "", str |-> <<>>]
    ELSE LET n == IF b[1] < 128 THEN 1
                  ELSE IF b[1] >= 194 /\ b[1] < 224 /\ Continuation(b, 2) THEN 2
                  ELSE IF b[1] >= 224 /\ b[1] < 240 /\ Continuation(b, 2)
                          /\ Continuation(b, 3)
                          /\ (b[1] - 224) * 4096 + (b[2] - 128) * 64 >= 2048
                  THEN 3 ELSE 0
             c == IF n = 1 THEN b[1]
                  ELSE IF n = 2 THEN (b[1] - 192) * 64 + (b[2] - 128)
                  ELSE (b[1] - 224) * 4096 + (b[2] - 128) * 64 + (b[3] - 128)
             rest == decode(SliceFrom(b, n))
         IN IF n = 0 \/ rest.raised # ""
            THEN [raised |-> "UnicodeDecodeError", str |-> <<>>]
            ELSE [raised |-> "", str |-> <<c>> \o rest.str]

RECURSIVE rstrip(_, _)
\* str.rstrip(chars) for one character
rstrip(str, c) ==
    IF str # <<>> /\ str[Len(str)] = c THEN rstrip(SubSeq(str, 1, Len(str) - 1), c)
    ELSE str

RECURSIVE lstrip(_, _)
\* str.lstrip(chars) for one character
lstrip(str, c) == IF str # <<>> /\ Head(str) = c THEN lstrip(Tail(str), c) ELSE str

\* str.strip(chars) for one character
strip(str, c) == rstrip(lstrip(str, c), c)

\* struct.pack "{n}s": b cut or padded with NUL to n bytes
pack_s(b, n) == Slice(b, 0, n) \o Zeros(n - Min(n, Len(b)))

\* A Python int too wide for the checker's integers is [neg, mag]: its sign
\* and the bytes of its magnitude, least significant first, none trailing zero
PyInt(neg, mag) == [neg |-> neg /\ rstrip(mag, 0) # <<>>, mag |-> rstrip(mag, 0)]

RECURSIVE negate(_, _)
\* the two's complement of the bytes b: each inverted, carry added
negate(b, carry) ==
    IF b = <<>> THEN <<>>
    ELSE <<((255 - Head(b)) + carry) % 256>>
             \o negate(Tail(b), ((255 - Head(b)) + carry) \div 256)

\* n.to_bytes(k, "little", signed=False) and struct.pack "<Q" for k = 8
int_to_bytes(n, k) ==
    IF n.neg \/ Len(n.mag) > k THEN [raised |-> "OverflowError", bytes |-> <<>>]
    ELSE [raised |-> "", bytes |-> n.mag \o Zeros(k - Len(n.mag))]

\* n.to_bytes(k, "little", signed=True) and struct.pack "<q" for k = 8
int_to_bytes_signed(n, k) ==
    LET m == n.mag \o Zeros(k - Min(k, Len(n.mag)))
        fits == /\ Len(n.mag) <= k
                /\ IF n.neg
                   THEN m[k] < 128 \/ m = Zeros(k - 1) \o <<128>>
                   ELSE m[k] < 128
    IN IF ~fits THEN [raised |-> "OverflowError", bytes |-> <<>>]
       ELSE [raised |-> "", bytes |-> IF n.neg THEN negate(m, 1) ELSE m]

\* int.from_bytes(b, byteorder="little", signed=False) for wide integers
int_from_bytes_unsigned(b) == PyInt(FALSE, b)

\* int.from_bytes(b, byteorder="little", signed=True)
int_from_bytes_signed(b) ==
    IF b # <<>> /\ b[Len(b)] >= 128 THEN PyInt(TRUE, negate(b, 1)) ELSE PyInt(FALSE, b)

\* A Python object a caller passes where the code tests its type: its type
\* and, for an int, sign and magnitude as in PyInt; for a float the 8 bytes
\* of its IEEE 754 double, least significant first; for a str its code points
Obj(type, neg, mag) == [type |-> type, neg |-> neg, mag |-> mag]
PyNone == Obj("NoneType", FALSE, <<>>)
PyInteger(n) == Obj("int", n.neg, n.mag)
PyFloat(bits) == Obj("float", FALSE, bits)
PyStr(str) == Obj("str", FALSE, str)

\* isinstance(v, int): a bool is an int
IsInt(v) == v.type \in {"int", "bool"}

\* common.int2bytearray
int2bytearray(n, length) ==
    IF n.neg THEN int_to_bytes_signed(n, length) ELSE int_to_bytes(n, length)

align_up(n, m) == IF n % m # 0 THEN m - (n % m) ELSE 0

align_eight(n) == align_up(n, 8)

-----------------------------------------------------------------------------
(* Constants of hlinknet.py and _library.py *)

T32_API_SYNCREQUEST == 2
T32_API_SYNCBACKREQ == 5
T32_API_SYNCACKN == 18
T32_API_SYNCBACK == 34
T32_API_KEEPALIVE == 254
\* b"TRACE32\0"
MAGIC_PATTERN == <<84, 82, 65, 67, 69, 51, 50, 0>>
HEADER_LEN == 8
ALIGN64 == 8
T32_NETTCP_RCL_REQ == 16
RCL_RESP == 17
RCL_NOTIFY == 18
RAPI_CMD_NOP == 112
RAPI_CMD_ATTACH == 113
RAPI_CMD_DEVICE_SPECIFIC == 116
RAPI_DSCMD_DAAPI == 146
T32_ERR_OK == 0
\* force_length=None
NoForceLength == -1
\* _EMU_CBMAXDATASIZE of _directaccess.py
EMU_CBMAXDATASIZE == 15360
\* DirectAccessCommand
SETINFO == 2
GETINFO == 3
SHIFTRAW == 12
\* None, where a byte string is optional
None == <<0 - 1>>
\* a local variable no statement has bound yet
Unbound == <<0 - 2>>
\* width=None
NoWidth == 0 - 1
\* _EMU_CBMAXDATASIZE of _memory_bundle.py
MEMORY_EMU_CBMAXDATASIZE == 15360
\* MemoryAccessBundleType
WRITE == 0
READ == 1
READWRITE == 2
RAPI_DSCMD_BUNDLE_OBJ_TRANSFER == 56
\* Unit of _register.py
CPU == 4
FPU == 8
VPU == 16
\* _address.py
T32_ADDRTYPE_A32 == 2
T32_ADDRTYPE_A64 == 3

\* int_code values that are keys of error_code_exception_mapping
MappedCodes ==
    {0 - 1, 0 - 2, 0 - 3, 0 - 4, 0 - 5, 0 - 6,
     2, 3, 4, 6, 10, 14, 15, 16, 22, 48, 49, 57, 60, 64, 67, 83, 90, 91, 92, 93,
     113, 123, 128, 140, 144, 147, 161, 162, 164, 254, 255,
     4096, 4112, 4113, 4128, 4129, 4144, 4145, 4146, 4147, 4148,
     4160, 4161, 4162, 4163, 4176, 4192, 4208, 4209, 4210, 4224, 4225,
     4241, 4242, 4257, 4258, 4259, 4272, 4288, 4289}

\* error_code_exception_mapping[code]["exception"]
error_code_exception_mapping(code) ==
    CASE code = 90 -> "T32_ERR_FN1"
      [] code = 91 -> "T32_ERR_FN2"
      [] code = 92 -> "T32_ERR_FN3"
      [] code = 93 -> "T32_ERR_FN4"
      [] code \in {4112, 4128, 4146, 4162} -> "RegisterNotFoundError"
      [] code \in {4113, 4129, 4145, 4148, 4161, 4163} -> "RegisterError"
      [] code \in {4144, 4147, 4160} -> "RegisterParameterError"
      [] code = 4176 -> "BreakpointWriteError"
      [] code \in {4192, 4208, 4209, 4210} -> "MemoryError"
      [] code \in {4224, 4225} -> "VariableError"
      [] code = 4241 -> "BreakpointParameterError"
      [] code = 4242 -> "BreakpointNotFoundError"
      [] code = 4257 -> "BreakpointError"
      [] code = 4258 -> "BreakpointAddressError"
      [] code = 4259 -> "BreakpointActionError"
      [] code = 4272 -> "AddressError"
      [] code = 4288 -> "CommandError"
      [] code = 4289 -> "FunctionError"
      [] OTHER -> "InternalError"

\* Library.raise_error: the class of the exception raised for error_code
raise_error(error_code) ==
    IF error_code \in MappedCodes THEN error_code_exception_mapping(error_code)
    ELSE "ApiError"

-----------------------------------------------------------------------------
(* Outcomes of a call *)

NoArgs == [rapi_cmd |-> 0, opt_arg |-> 0, sendonly |-> FALSE, payload |-> <<>>,
           force_length |-> 0 - 1, force_16bit_length |-> FALSE]
NoReads == [pending |-> <<>>, done |-> <<>>]
NoResult == [kind |-> "none", exc |-> "", code |-> 0, value |-> <<>>]
Return(value) == [kind |-> "return", exc |-> "", code |-> 0, value |-> value]
Raise(exc) == [kind |-> "raise", exc |-> exc, code |-> 0, value |-> <<>>]
RaiseCode(exc, code) == [kind |-> "raise", exc |-> exc, code |-> code, value |-> <<>>]

-----------------------------------------------------------------------------
(* CommunicationTcp *)

\* CommunicationTcp.transmit: the frame handed to sendto
tcp_transmit(data) ==
    LET size == Len(data)
        padding_length == align_eight(size + 4 + 4)
    IN to_bytes(size, 4) \o to_bytes(T32_NETTCP_RCL_REQ, 4) \o data \o Zeros(padding_length)

\* A frame as the peer sends it: header, payload, padding to 8 bytes
PeerFrame(message_type, payload) ==
    to_bytes(Len(payload), 4) \o to_bytes(message_type, 4) \o payload
        \o Zeros(align_eight(Len(payload) + HEADER_LEN))

RECURSIVE tcp_extract_message(_)
\* CommunicationTcp.extract_message on st = [socket_content, response_queue,
\* notify_queue, raised]; raised is "" or the exception that ended the loop
tcp_extract_message(st) ==
    LET content == st.socket_content
        content_len == Len(content)
    IN IF content_len < HEADER_LEN
       THEN [st EXCEPT !.socket_content = <<>>]
       ELSE LET message_payload_len == int_from_bytes(Slice(content, 0, 4))
                message_len == message_payload_len + HEADER_LEN
            IN IF content_len >= message_len
               THEN LET message_type == int_from_bytes(Slice(content, 4, 8))
                        message_payload == Slice(content, HEADER_LEN, message_len)
                        message_len_stuffed ==
                            ((message_len + ALIGN64 - 1) \div ALIGN64) * ALIGN64
                        rest == SliceFrom(content, message_len_stuffed)
                    IN IF message_type = RCL_NOTIFY
                       THEN tcp_extract_message(
                                [st EXCEPT !.socket_content = rest,
                                           !.notify_queue = Append(@, message_payload)])
                       ELSE IF message_type = RCL_RESP
                       THEN tcp_extract_message(
                                [st EXCEPT !.socket_content = rest,
                                           !.response_queue = Append(@, message_payload)])
                       ELSE [st EXCEPT !.socket_content = rest,
                                       !.raised = "ConnectionError"]
               ELSE st

\* a poll_response that puts the notifications in the response queue too
tcp_poll_response_one_queue(content, rq, nq, message_received) ==
    LET st == tcp_extract_message([socket_content |-> content \o message_received,
                                   response_queue |-> rq,
                                   notify_queue |-> nq,
                                   raised |-> ""])
    IN [st EXCEPT !.response_queue = st.response_queue \o st.notify_queue,
                  !.notify_queue = <<>>]

\* CommunicationTcp.poll_response after recvfrom returned message_received
tcp_poll_response(content, rq, nq, message_received) ==
    tcp_extract_message([socket_content |-> content \o message_received,
                         response_queue |-> rq,
                         notify_queue |-> nq,
                         raised |-> ""])

-----------------------------------------------------------------------------
(* CommunicationUdp.sync *)

\* the handshake datagram struct.pack("BBHI8s", ...) builds
sync_datagram(message_type, block_id) ==
    <<message_type, 0>> \o to_bytes(block_id, 2) \o to_bytes(0, 4) \o MAGIC_PATTERN

\* sync() ends with ApiConnectionSyncError: the except clause of every
\* activation wraps and re-raises it
sync_raise ==
    /\ sync_stack' = <<>>
    /\ sync_result' = "ApiConnectionSyncError"

\* the activation that left its loop on a sync-ack sends the sync-back and
\* returns True; every caller gets success = True, breaks and returns it
sync_return(tx_ok) ==
    IF tx_ok
    THEN /\ sync_sent' = sync_sent + 1
         /\ sync_stack' = <<>>
         /\ sync_result' = "True"
    ELSE /\ sync_raise
         /\ UNCHANGED sync_sent

\* entry of an activation sync(maxTries): the sync-request is sent, and the
\* for loop over range(maxTries) is entered; its else clause raises at once
\* when maxTries is 0
sync_begin(stack, maxTries, tx_ok) ==
    IF ~tx_ok
    THEN /\ sync_raise
         /\ UNCHANGED sync_sent
    ELSE /\ sync_sent' = sync_sent + 1
         /\ IF maxTries = 0
            THEN sync_raise
            ELSE /\ sync_stack' = Append(stack, [maxTries |-> maxTries, attempt |-> 0])
                 /\ sync_result' = "none"

\* a caller's sync(maxTries)
sync(maxTries, tx_ok) ==
    /\ sync_stack = <<>>
    /\ sync_max' = maxTries
    /\ sync_recvd' = 0
    /\ IF ~tx_ok
       THEN sync_raise /\ sync_sent' = 0
       ELSE /\ sync_sent' = 1
            /\ IF maxTries = 0
               THEN sync_raise
               ELSE /\ sync_stack' = <<[maxTries |-> maxTries, attempt |-> 0]>>
                    /\ sync_result' = "none"
    /\ UNCHANGED receive_block_id

\* one iteration of the for loop of the innermost activation: recvfrom
\* returns recv_data
sync_recvfrom(recv_data, tx_ok) ==
    /\ sync_stack # <<>>
    /\ LET n == Len(sync_stack)
           top == sync_stack[n]
       IN /\ sync_recvd' = sync_recvd + 1
          /\ UNCHANGED sync_max
          /\ IF recv_data = <<>>
             THEN /\ sync_raise
                  /\ UNCHANGED <<sync_sent, receive_block_id>>
             ELSE IF recv_data[1] = T32_API_SYNCBACKREQ /\ Len(recv_data) = 16
             THEN /\ IF n >= RecursionLimit
                     THEN sync_raise /\ UNCHANGED sync_sent
                     ELSE sync_begin(sync_stack, top.maxTries - top.attempt, tx_ok)
                  /\ UNCHANGED receive_block_id
             ELSE IF /\ recv_data[1] = T32_API_SYNCACKN
                     /\ Len(recv_data) = 16
                     /\ SliceFrom(recv_data, 8) = MAGIC_PATTERN
             THEN /\ receive_block_id' = int_from_bytes(Slice(recv_data, 2, 4))
                  /\ sync_return(tx_ok)
             ELSE /\ IF top.attempt + 1 = top.maxTries
                     THEN sync_raise
                     ELSE /\ sync_stack' = [sync_stack EXCEPT ![n].attempt = @ + 1]
                          /\ UNCHANGED sync_result
                  /\ UNCHANGED <<sync_sent, receive_block_id>>

\* recvfrom raises socket.timeout
sync_timeout ==
    /\ sync_stack # <<>>
    /\ sync_raise
    /\ UNCHANGED <<sync_max, sync_recvd, sync_sent, receive_block_id>>

-----------------------------------------------------------------------------
(* _directaccess.py *)

\* DirectAccess._serialize_header
serialize_header(cmd, payload_bitlen) ==
    IF payload_bitlen < 15 THEN <<cmd * 16 + payload_bitlen>>
    ELSE IF payload_bitlen < 255 THEN <<cmd * 16 + 15, payload_bitlen>>
    ELSE <<cmd * 16 + 15, 255>> \o to_bytes(payload_bitlen, 4)

\* an access: the fields of DirectAccessGetInfo, DirectAccessSetInfo and
\* DirectAccessShiftRaw, those a class lacks at their defaults
Access(cmd, instance_type, instance, info_id, value, num_bits, tms, tdi, tdo) ==
    [cmd |-> cmd, instance_type |-> instance_type, instance |-> instance,
     info_id |-> info_id, value |-> value, num_bits |-> num_bits,
     tms |-> tms, tdi |-> tdi, tdo |-> tdo,
     options |-> [lasttms_one |-> FALSE, tms_one |-> FALSE,
                  tdi_lasttdo |-> FALSE, tdi_one |-> FALSE]]

\* truth value of an optional byte string
Truthy(b) == b # None /\ b # <<>>

\* DirectAccessShiftRaw._serialize_payload
shiftraw_serialize_payload(a) ==
    LET options == (IF Truthy(a.tms) THEN 1 ELSE 0) + (IF Truthy(a.tdi) THEN 2 ELSE 0)
                     + (IF a.tdo THEN 4 ELSE 0)
                     + (IF a.options.lasttms_one THEN 8 ELSE 0)
                     + (IF a.options.tms_one THEN 16 ELSE 0)
                     + (IF a.options.tdi_lasttdo THEN 32 ELSE 0)
                     + (IF a.options.tdi_one THEN 64 ELSE 0)
    IN <<144, 0>> \o to_bytes(options, 2) \o to_bytes(a.num_bits, 4)
           \o (IF Truthy(a.tms) THEN a.tms ELSE <<>>)
           \o (IF Truthy(a.tdi) THEN a.tdi ELSE <<>>)
           \o (IF a.tms = None /\ a.tdi = None /\ a.tdo
               THEN Zeros((a.num_bits + 7) \div 8) ELSE <<>>)

\* the payload of DirectAccessGetInfo._serialize, DirectAccessSetInfo._serialize
\* and DirectAccessShiftRaw._serialize
serialize_payload(a) ==
    IF a.cmd = SHIFTRAW THEN shiftraw_serialize_payload(a)
    ELSE <<255, 255, 255, 255>> \o <<a.instance_type>> \o to_bytes(a.instance, 2)
             \o to_bytes(a.info_id, 2)
             \o (IF a.cmd = SETINFO THEN to_bytes(a.value, 4) ELSE <<>>)

\* access._serialize()
serialize(a) ==
    LET cmd == IF a.cmd = SHIFTRAW
               THEN 12 + 2 + (IF a.tdo THEN 1 ELSE 0)
               ELSE a.cmd
        payload == serialize_payload(a)
    IN serialize_header(cmd, Len(payload) * 8) \o payload

\* DirectAccessBundleRequest()
BundleRequest == [access_list |-> <<>>, payload |-> <<>>]

\* an add_access that puts the access in front, which C11 tells apart
request_add_access_front(req, access, buffer) ==
    [access_list |-> <<access>> \o req.access_list, payload |-> buffer \o req.payload]

\* DirectAccessBundleRequest.add_access
request_add_access(req, access, buffer) ==
    [access_list |-> Append(req.access_list, access), payload |-> req.payload \o buffer]

\* a size limit of _get_requests that is one byte larger, which C10 tells apart
exceeds_full_size(n) == n > EMU_CBMAXDATASIZE

\* a size limit of _get_requests that is one byte smaller, which C9 tells apart
exceeds_early(n) == n >= EMU_CBMAXDATASIZE - 1

\* the size test of _get_requests
exceeds(n) == n > EMU_CBMAXDATASIZE - 1

RECURSIVE get_requests_loop(_, _, _, _)
\* DirectAccessBundle._get_requests: the for loop from the idx-th access on,
\* request being req, up to the next yield, the raise, or the final yield
get_requests_loop(list, release, idx, req) ==
    IF idx > Len(list)
    THEN LET last == [req EXCEPT !.payload = @ \o (IF release THEN <<0>> ELSE <<1>>)]
         IN [gen_pc |-> "end", gen_idx |-> idx, request |-> last, yields |-> <<last>>]
    ELSE LET tmp == serialize(list[idx])
         IN IF exceeds(Len(tmp))
            THEN [gen_pc |-> "DirectAccessError", gen_idx |-> idx, request |-> req,
                  yields |-> <<>>]
            ELSE IF exceeds(Len(req.payload) + Len(tmp))
            THEN LET held == [req EXCEPT !.payload = @ \o <<1>>]
                 IN [gen_pc |-> "loop", gen_idx |-> idx, request |-> held,
                     yields |-> <<held>>]
            ELSE get_requests_loop(list, release, idx + 1,
                                   request_add_access(req, list[idx], tmp))

\* DirectAccessBundle.add_access
add_access(access) ==
    /\ gen_pc = "idle"
    /\ access_list' = Append(access_list, access)
    /\ UNCHANGED <<release_debug_port, gen_pc, gen_idx, request, yielded>>

\* the call _get_requests(release_debug_port=release): a generator is made,
\* none of its body runs yet
get_requests(release) ==
    /\ gen_pc = "idle"
    /\ release_debug_port' = release
    /\ gen_pc' = "start"
    /\ gen_idx' = 1
    /\ request' = BundleRequest
    /\ yielded' = <<>>
    /\ UNCHANGED access_list

\* next() on the generator: its body runs up to the next yield, to the raise
\* or to its end (StopIteration)
get_requests_next ==
    /\ gen_pc \in {"start", "loop", "end"}
    /\ IF gen_pc = "end"
       THEN /\ gen_pc' = "done"
            /\ UNCHANGED <<gen_idx, request, yielded>>
       ELSE LET r == IF gen_pc = "start"
                     THEN get_requests_loop(access_list, release_debug_port, 1,
                                            BundleRequest)
                     ELSE get_requests_loop(
                              access_list, release_debug_port, gen_idx + 1,
                              request_add_access(BundleRequest, access_list[gen_idx],
                                                 serialize(access_list[gen_idx])))
            IN /\ gen_pc' = r.gen_pc
               /\ gen_idx' = r.gen_idx
               /\ request' = r.request
               /\ yielded' = yielded \o r.yields
    /\ UNCHANGED <<access_list, release_debug_port>>

-----------------------------------------------------------------------------
(* Link *)

\* a get_message_id that reduces modulo 256, which C2 tells apart
get_message_id_mod_256(mid) == mid % 256

\* Link.get_message_id
get_message_id(mid) == mid % 255

\* Link.increment_message_id: the value returned, for the counter after the increment
increment_message_id(mid) == (mid + 1) % 255

-----------------------------------------------------------------------------
(* Library.generic_api_call *)

\* a struct.pack that leaves the compact form one byte early, which C8 tells apart
envelope_extended_at_0xFF(rapi_cmd, opt_arg, msg_id, payload, force_length, force_16bit_length) ==
    LET payload_length == Len(payload)
        msg_len == IF force_length # NoForceLength THEN force_length
                   ELSE 2 + payload_length
        padding == Zeros(payload_length % 2)
    IN IF msg_len >= 255 \/ force_16bit_length
       THEN IF msg_len + 2 > 61440
            THEN [raised |-> "ApiProtocolTransmitError", send_data |-> <<>>]
            ELSE [raised |-> "",
                  send_data |-> <<0, rapi_cmd, opt_arg, msg_id>>
                                    \o to_bytes(msg_len + 2, 2) \o payload \o padding]
       ELSE [raised |-> "",
             send_data |-> <<msg_len, rapi_cmd, opt_arg, msg_id>> \o payload \o padding]

\* The struct.pack of generic_api_call: [raised, send_data]; no envelope is
\* built (and increment_message_id is not evaluated) when the length check fails
envelope(rapi_cmd, opt_arg, msg_id, payload, force_length, force_16bit_length) ==
    LET payload_length == Len(payload)
        msg_len == IF force_length # NoForceLength THEN force_length
                   ELSE 2 + payload_length
        padding == Zeros(payload_length % 2)
    IN IF msg_len > 255 \/ force_16bit_length
       THEN IF msg_len + 2 > 61440
            THEN [raised |-> "ApiProtocolTransmitError", send_data |-> <<>>]
            ELSE [raised |-> "",
                  send_data |-> <<0, rapi_cmd, opt_arg, msg_id>>
                                    \o to_bytes(msg_len + 2, 2) \o payload \o padding]
       ELSE [raised |-> "",
             send_data |-> <<msg_len, rapi_cmd, opt_arg, msg_id>> \o payload \o padding]

\* generic_api_call once Link.receive returned recv_data
call_result(recv_data) ==
    IF recv_data[1] # T32_ERR_OK
    THEN RaiseCode(raise_error(recv_data[1]), recv_data[1])
    ELSE Return(SliceFrom(recv_data, 2))

\* an except clause that also catches a transmit failure, which C6 tells apart
connect_catches_transmit(exc) ==
    exc \in {"ApiConnectionTimeoutError", "ApiConnectionTransmitError"}

\* The except clause of Debugger.connect
connect_catches(exc) == exc = "ApiConnectionTimeoutError"

\* Debugger.connect / Debugger.__init__ after t32_attach ended with res
after_call(d, res) ==
    IF d = "attach_1"
    THEN IF res.kind = "return" THEN "ready"
         ELSE IF connect_catches(res.exc) THEN "t32_exit" ELSE "failed"
    ELSE IF d = "attach_2"
    THEN IF res.kind = "return" THEN "ready" ELSE "failed"
    ELSE d

\* what Debugger.connect has done once its t32_attach ended with res
after_call_ops(d, res, done) ==
    IF d \in {"attach_1", "attach_2"}
    THEN Append(done, IF res.kind = "return" THEN "return" ELSE res.exc)
    ELSE done

\* what Debugger.connect has done once generic_api_call is entered
call_ops(d, done) ==
    IF d \in {"attach_1", "attach_2"} THEN Append(done, "attach") ELSE done

\* the end of a call: its outcome, and Debugger.connect's reaction when the
\* call was its t32_attach; the argument of receive() goes out of scope
Finish(res, done) ==
    /\ result' = res
    /\ pc' = "idle"
    /\ recv_message_id' = 0
    /\ dbg' = after_call(dbg, res)
    /\ ops' = after_call_ops(dbg, res, done)

\* CommunicationBase.receive goes on with its loop
Continue == UNCHANGED <<pc, result, dbg, ops, recv_message_id>>

\* generic_api_call up to the entry of Link.receive; tx_ok: sendto succeeds
generic_api_call(rapi_cmd, opt_arg, sendonly, payload, force_length, force_16bit_length, tx_ok) ==
    LET env == envelope(rapi_cmd, opt_arg, increment_message_id(message_id),
                        payload, force_length, force_16bit_length)
    IN /\ pc = "idle"
       /\ UNCHANGED <<socket, socket_content, response_queue, notify_queue, reads>>
       /\ args' = [rapi_cmd |-> rapi_cmd, opt_arg |-> opt_arg, sendonly |-> sendonly,
                   payload |-> payload, force_length |-> force_length,
                   force_16bit_length |-> force_16bit_length]
       /\ IF env.raised # ""
          THEN /\ Finish(Raise(env.raised), call_ops(dbg, ops))
               /\ send_data' = <<>>
               /\ wire' = <<>>
               /\ UNCHANGED message_id
          ELSE /\ message_id' = message_id + 1
               /\ send_data' = env.send_data
               /\ IF ~(tx_ok /\ socket = "connected")
                  THEN /\ Finish(Raise("ApiConnectionTransmitError"), call_ops(dbg, ops))
                       /\ wire' = <<>>
                  ELSE /\ wire' = tcp_transmit(env.send_data)
                       /\ IF sendonly
                          THEN Finish(Return(<<>>), call_ops(dbg, ops))
                          ELSE /\ recv_message_id' = get_message_id(message_id')
                               /\ pc' = "receive"
                               /\ ops' = call_ops(dbg, ops)
                               /\ UNCHANGED <<result, dbg>>

\* CommunicationBase.receive: one iteration of the loop that finds a message queued
ReceiveStep ==
    /\ pc = "receive"
    /\ response_queue # <<>>
    /\ LET message == Head(response_queue)
       IN /\ response_queue' = Tail(response_queue)
          /\ IF message = <<>> THEN Continue
             ELSE IF message[1] = T32_API_KEEPALIVE THEN Continue
             ELSE IF Len(message) < 2 THEN Finish(Raise("IndexError"), ops)
             ELSE IF message[2] < recv_message_id THEN Continue
             ELSE IF message[2] = recv_message_id THEN Finish(call_result(message), ops)
             ELSE Finish(Raise("ConnectionError"), ops)
    /\ UNCHANGED <<socket, socket_content, notify_queue, reads, message_id,
                   args, send_data, wire>>

\* CommunicationBase.receive with the queue empty: poll_response, recvfrom
\* returning message_received
PollResponse(message_received) ==
    /\ pc = "receive"
    /\ response_queue = <<>>
    /\ IF socket = "None"
       THEN /\ Finish(Raise("ValueError"), ops)
            /\ UNCHANGED <<socket_content, response_queue, notify_queue>>
       ELSE LET st == tcp_poll_response(socket_content, response_queue,
                                        notify_queue, message_received)
            IN /\ socket_content' = st.socket_content
               /\ response_queue' = st.response_queue
               /\ notify_queue' = st.notify_queue
               /\ IF st.raised # "" THEN Finish(Raise(st.raised), ops)
                  ELSE Continue
    /\ UNCHANGED <<socket, reads, message_id, args, send_data, wire>>

\* CommunicationBase.receive with the queue empty and recvfrom raising
\* socket.timeout, which Link.receive turns into ApiConnectionTimeoutError
PollTimeout ==
    /\ pc = "receive"
    /\ response_queue = <<>>
    /\ socket = "connected"
    /\ Finish(Raise("ApiConnectionTimeoutError"), ops)
    /\ UNCHANGED <<socket, socket_content, response_queue, notify_queue, reads,
                   message_id, args, send_data, wire>>

-----------------------------------------------------------------------------
(* Library.t32_init, Library.exit, Debugger.connect, Debugger.disconnect *)

\* Library.t32_init: Link.connect (CommunicationTcp.connect), then sync, which
\* is a stub for TCP; connect_ok: socket.connect succeeds
t32_init(connect_ok) ==
    /\ dbg \in {"init_1", "init_2"}
    /\ pc = "idle"
    /\ IF socket # "None"
       THEN /\ dbg' = (IF dbg = "init_1" THEN "attach_1" ELSE "attach_2")
            /\ ops' = Append(ops, "sync")
            /\ UNCHANGED <<socket, result>>
       ELSE IF connect_ok
       THEN /\ socket' = "connected"
            /\ dbg' = (IF dbg = "init_1" THEN "attach_1" ELSE "attach_2")
            /\ ops' = ops \o <<"connect", "sync">>
            /\ UNCHANGED result
       ELSE /\ socket' = "unconnected"
            /\ dbg' = "failed"
            /\ result' = Raise("OSError")
            /\ UNCHANGED ops
    /\ UNCHANGED <<socket_content, response_queue, notify_queue, reads, message_id,
                   pc, args, recv_message_id, send_data, wire>>

\* Library.t32_attach(1) of Debugger.connect
t32_attach(tx_ok) ==
    /\ dbg \in {"attach_1", "attach_2"}
    /\ pc = "idle"
    /\ generic_api_call(RAPI_CMD_ATTACH, 1, FALSE, <<>>, NoForceLength, FALSE, tx_ok)

\* Library.exit of Debugger.connect, after the first t32_attach timed out
t32_exit ==
    /\ dbg = "t32_exit"
    /\ socket' = "None"
    /\ dbg' = "init_2"
    /\ ops' = Append(ops, "exit")
    /\ UNCHANGED <<socket_content, response_queue, notify_queue, reads, message_id,
                   pc, args, recv_message_id, send_data, wire, result>>

\* Debugger.disconnect: Library.exit, CommunicationTcp.exit
disconnect ==
    /\ dbg = "ready"
    /\ pc = "idle"
    /\ socket' = "None"
    /\ dbg' = "disconnected"
    /\ UNCHANGED <<socket_content, response_queue, notify_queue, reads, message_id,
                   pc, args, recv_message_id, send_data, wire, result, ops>>

-----------------------------------------------------------------------------
(* DirectAccessBundle._execute, Library.t32_bundledaccess *)

\* the _payload_len an access holds once _serialize has run
payload_len(a) == Len(serialize_payload(a))

\* DirectAccessGetInfoResult(value) and DirectAccessShiftRawResult(tdo); the
\* field a class lacks is 0 or None
AccessResult(cls, value, tdo) == [cls |-> cls, value |-> value, tdo |-> tdo]

\* access._deserialize(data) of DirectAccessGetInfo, DirectAccessSetInfo and
\* DirectAccessShiftRaw
access_deserialize(a, data) ==
    IF a.cmd = GETINFO
    THEN [raised |-> "", data |-> SliceFrom(data, payload_len(a)),
          result |-> AccessResult("DirectAccessGetInfoResult",
                                  int_from_bytes(Slice(data, 0, 4)), None)]
    ELSE IF a.cmd = SETINFO
    THEN [raised |-> "NotImplementedError", data |-> data,
          result |-> AccessResult("DirectAccessResult", 0, None)]
    ELSE IF a.tdo
    THEN [raised |-> "", data |-> SliceFrom(data, payload_len(a)),
          result |-> AccessResult("DirectAccessShiftRawResult", 0,
                                  Slice(data, 0, (a.num_bits + 7) \div 8))]
    ELSE [raised |-> "", data |-> data,
          result |-> AccessResult("DirectAccessShiftRawResult", 0, None)]

RECURSIVE request_deserialize(_, _, _)
\* DirectAccessBundleRequest._deserialize: the for loop over the accesses left,
\* done being the list built so far
request_deserialize(list, buffer, done) ==
    IF list = <<>> THEN [raised |-> "", result |-> done]
    ELSE LET d == access_deserialize(Head(list), buffer)
         IN IF d.raised # "" THEN [raised |-> d.raised, result |-> done]
            ELSE request_deserialize(Tail(list), d.data, Append(done, d.result))

\* next() on a generator suspended at the yield inside its loop
get_requests_resume ==
    get_requests_loop(access_list, release_debug_port, gen_idx + 1,
                      request_add_access(BundleRequest, access_list[gen_idx],
                                         serialize(access_list[gen_idx])))

\* _execute, the generator having run to r: the raise of _get_requests leaves
\* _execute, a yielded request enters t32_bundledaccess and generic_api_call
\* up to the entry of Link.receive; tx_ok: sendto succeeds
execute_request(r, res, tx_ok) ==
    /\ gen_pc' = r.gen_pc
    /\ gen_idx' = r.gen_idx
    /\ request' = r.request
    /\ yielded' = yielded \o r.yields
    /\ results' = res
    /\ IF r.gen_pc = "DirectAccessError"
       THEN /\ exec_pc' = "done"
            /\ exec_result' = Raise("DirectAccessError")
            /\ UNCHANGED <<linkVars, transmitted>>
       ELSE /\ generic_api_call(RAPI_CMD_DEVICE_SPECIFIC, RAPI_DSCMD_DAAPI, FALSE,
                                r.request.payload, NoForceLength, TRUE, tx_ok)
            /\ exec_pc' = "call"
            /\ exec_result' = NoResult
            /\ transmitted' = (IF wire' # <<>> THEN transmitted + 1 ELSE transmitted)

\* DirectAccessBundle._execute(dbg, release_debug_port=release) up to the
\* first call of t32_bundledaccess
execute(release, tx_ok) ==
    /\ exec_pc = "idle"
    /\ gen_pc = "idle"
    /\ pc = "idle"
    /\ release_debug_port' = release
    /\ execute_request(get_requests_loop(access_list, release, 1, BundleRequest),
                       <<>>, tx_ok)
    /\ UNCHANGED access_list

\* _execute once generic_api_call has ended: its exception leaves _execute;
\* else the request deserializes the response, the results are extended and
\* the for loop asks the generator for the next request.  The list _execute
\* returns is results.
execute_resume(tx_ok) ==
    /\ exec_pc = "call"
    /\ pc = "idle"
    /\ LET d == request_deserialize(request.access_list, result.value, <<>>)
       IN IF result.kind = "raise"
          THEN /\ exec_pc' = "done"
               /\ exec_result' = result
               /\ UNCHANGED <<linkVars, bundleVars, results, transmitted>>
          ELSE IF d.raised # ""
          THEN /\ exec_pc' = "done"
               /\ exec_result' = Raise(d.raised)
               /\ UNCHANGED <<linkVars, bundleVars, results, transmitted>>
          ELSE IF gen_pc = "end"
          THEN /\ exec_pc' = "done"
               /\ exec_result' = Return(<<>>)
               /\ results' = results \o d.result
               /\ gen_pc' = "done"
               /\ UNCHANGED <<linkVars, access_list, release_debug_port, gen_idx,
                              request, yielded, transmitted>>
          ELSE /\ execute_request(get_requests_resume, results \o d.result, tx_ok)
               /\ UNCHANGED <<access_list, release_debug_port>>

-----------------------------------------------------------------------------
(* _address.py *)

\* the parameter ids, as bytes
AC == <<65, 67>>
AD == <<65, 68>>
AT == <<65, 84>>
CA == <<67, 65>>
CO == <<67, 79>>
DM == <<68, 77>>
EN == <<69, 78>>
IM == <<73, 77>>
MU == <<77, 85>>
NM == <<78, 77>>
SI == <<83, 73>>
SZ == <<83, 90>>
TU == <<84, 85>>
TY == <<84, 89>>
WI == <<87, 73>>
XX == <<88, 88>>

\* Address(conn, access=access, value=value): access is a str or None, value
\* a wide integer
Address(access, value) == [access |-> access, value |-> value]

\* Address.serialize(width=width), address_offset being 0: [raised, bytes];
\* the length it returns with the bytes is their length
address_serialize(a, width) ==
    LET v == int2bytearray(a.value, 8)
        access == encode(a.access)
        access_len == (Len(access) + 1) + ((Len(access) + 1) % 2)
    IN IF v.raised # "" THEN v
       ELSE [raised |-> "",
             bytes |-> to_bytes(T32_ADDRTYPE_A64, 2) \o v.bytes
                 \o (IF a.access # None
                     THEN AC \o to_bytes(access_len, 2) \o pack_s(access, access_len)
                     ELSE <<>>)
                 \o (IF width # NoWidth THEN WI \o to_bytes(width, 2) ELSE <<>>)
                 \o XX]

\* Address.parse_access: [raised, str]
parse_access(byte_buffer) ==
    LET d == decode(byte_buffer)
    IN [raised |-> d.raised, str |-> strip(strip(d.str, 0), 58)]

\* Address.deserialize up to its loop: the state of the call, addr_access
\* not yet bound
address_begin(recv_buffer) ==
    LET addr_type == int_from_bytes(Slice(recv_buffer, 0, 2))
        st == [pc |-> "loop", exc |-> "", read_ptr |-> 0, access |-> Unbound,
               value |-> PyInt(FALSE, <<>>)]
    IN IF addr_type = T32_ADDRTYPE_A32
       THEN [st EXCEPT !.read_ptr = 6,
                       !.value = int_from_bytes_unsigned(Slice(recv_buffer, 2, 6))]
       ELSE IF addr_type = T32_ADDRTYPE_A64
       THEN [st EXCEPT !.read_ptr = 10,
                       !.value = int_from_bytes_unsigned(Slice(recv_buffer, 2, 10))]
       ELSE [st EXCEPT !.pc = "raise", !.exc = "ValueError"]

\* Address.deserialize: the test of the while loop and one run of its body,
\* or what follows the loop
address_iter(recv_buffer, st) ==
    LET read_ptr == st.read_ptr
        parameter_id == Slice(recv_buffer, read_ptr, read_ptr + 2)
        addr_access_len == int_from_bytes(Slice(recv_buffer, read_ptr + 2, read_ptr + 4))
        access == parse_access(Slice(recv_buffer, read_ptr + 4,
                                     read_ptr + 4 + addr_access_len))
        after == IF st.access = Unbound
                 THEN [st EXCEPT !.pc = "raise", !.exc = "UnboundLocalError"]
                 ELSE [st EXCEPT !.pc = "return"]
    IN IF ~(read_ptr < Len(recv_buffer)) THEN after
       ELSE IF parameter_id = AC
       THEN IF access.raised # ""
            THEN [st EXCEPT !.pc = "raise", !.exc = access.raised,
                            !.read_ptr = read_ptr + 4]
            ELSE [st EXCEPT !.read_ptr = read_ptr + 4 + addr_access_len,
                            !.access = access.str]
       ELSE IF parameter_id \in {WI, CO, MU, TU}
       THEN [st EXCEPT !.read_ptr = read_ptr + 4]
       ELSE IF parameter_id \in {SI, IM, AT}
       THEN [st EXCEPT !.read_ptr = read_ptr + 6]
       ELSE IF parameter_id = XX
       THEN [after EXCEPT !.read_ptr = read_ptr + 2]
       ELSE [st EXCEPT !.pc = "raise", !.exc = "ValueError"]

RECURSIVE address_loop(_, _)
\* the while loop of Address.deserialize run to its end
address_loop(recv_buffer, st) ==
    IF st.pc # "loop" THEN st ELSE address_loop(recv_buffer, address_iter(recv_buffer, st))

\* Address.deserialize(conn, recv_buffer): [pc, exc, read_ptr, access, value],
\* read_ptr and Address(access, value) returned when pc is "return"
address_deserialize(recv_buffer) == address_loop(recv_buffer, address_begin(recv_buffer))

-----------------------------------------------------------------------------
(* _memory_bundle.py, Library.t32_transfermemorybundleobj *)

\* MemoryReadAccess, MemoryWriteAccess and MemoryReadWriteAccess; the fields a
\* class lacks are 0 or empty
MemoryAccess(type, address, length, data, mask) ==
    [type |-> type, address |-> address, length |-> length, data |-> data, mask |-> mask]

\* struct.pack "<HH": [raised, bytes]
pack_HH(a, b) ==
    IF a > 65535 \/ b > 65535 THEN [raised |-> "struct.error", bytes |-> <<>>]
    ELSE [raised |-> "", bytes |-> to_bytes(a, 2) \o to_bytes(b, 2)]

\* MemoryReadAccess.serialize, MemoryWriteAccess.serialize and
\* MemoryReadWriteAccess.serialize: [raised, bytes]
memory_access_serialize(a) ==
    LET head == pack_HH(a.type, IF a.type = READ THEN a.length ELSE Len(a.data))
        addr == address_serialize(a.address, 1)
    IN IF head.raised # "" THEN head
       ELSE IF addr.raised # "" THEN addr
       ELSE [raised |-> "",
             bytes |-> head.bytes \o addr.bytes
                 \o (IF a.type = WRITE THEN a.data \o Zeros(Len(a.data) % 2)
                     ELSE IF a.type = READWRITE THEN a.data \o a.mask
                     ELSE <<>>)]

RECURSIVE memory_bundle_accesses(_)
\* MemoryAccessBundle.serialize: the for loop over the accesses left
memory_bundle_accesses(list) ==
    IF list = <<>> THEN [raised |-> "", bytes |-> <<>>]
    ELSE LET a == memory_access_serialize(Head(list))
             rest == memory_bundle_accesses(Tail(list))
         IN IF a.raised # "" THEN a
            ELSE IF rest.raised # "" THEN rest
            ELSE [raised |-> "", bytes |-> a.bytes \o rest.bytes]

\* MemoryAccessBundle.serialize: [raised, bytes]
memory_bundle_serialize(list) ==
    LET head == pack_HH(0, Len(list))
        accesses == memory_bundle_accesses(list)
        data == head.bytes \o accesses.bytes \o XX
    IN IF head.raised # "" THEN head
       ELSE IF accesses.raised # "" THEN accesses
       ELSE IF Len(data) > 65535 THEN [raised |-> "struct.error", bytes |-> <<>>]
       ELSE IF Len(data) > MEMORY_EMU_CBMAXDATASIZE
       THEN [raised |-> "NotImplementedError", bytes |-> <<>>]
       ELSE [raised |-> "", bytes |-> to_bytes(Len(data), 2) \o SliceFrom(data, 2)]

\* MemoryAccessResult(data, error)
MemoryAccessResult(data, error) == [data |-> data, error |-> error]

\* MemoryReadAccess.deserialize, MemoryWriteAccess.deserialize and
\* MemoryReadWriteAccess.deserialize: [raised, buffer, result]
memory_access_deserialize(a, buffer) ==
    LET ok == int_from_bytes(Slice(buffer, 0, 2))
        length == IF a.type = READ THEN a.length ELSE Len(a.data)
    IN IF Len(buffer) < 2
       THEN [raised |-> "struct.error", buffer |-> buffer,
             result |-> MemoryAccessResult(None, "")]
       ELSE IF ok # 1
       THEN [raised |-> "", buffer |-> SliceFrom(buffer, 2),
             result |-> MemoryAccessResult(None, IF a.type = READ
                                                 THEN "MemoryReadAccessError"
                                                 ELSE "MemoryWriteAccessError")]
       ELSE IF a.type = WRITE
       THEN [raised |-> "", buffer |-> SliceFrom(buffer, 2),
             result |-> MemoryAccessResult(None, "")]
       ELSE [raised |-> "", buffer |-> SliceFrom(buffer, 2 + length),
             result |-> MemoryAccessResult(Slice(buffer, 2, 2 + length), "")]

RECURSIVE memory_bundle_deserialize(_, _, _)
\* MemoryAccessBundle.deserialize: the for loop over the accesses left, done
\* being the results so far, and the assertion that follows: [raised, results]
memory_bundle_deserialize(list, buffer, done) ==
    IF list = <<>>
    THEN IF Slice(buffer, 0, 2) = XX THEN [raised |-> "", results |-> done]
         ELSE [raised |-> "AssertionError", results |-> done]
    ELSE LET d == memory_access_deserialize(Head(list), buffer)
         IN IF d.raised # "" THEN [raised |-> d.raised, results |-> done]
            ELSE memory_bundle_deserialize(Tail(list), d.buffer, Append(done, d.result))

\* MemoryAccessBundle.add_read, add_write and add_readwrite, the assertions
\* of the last two holding
memory_add(access) ==
    /\ mem_pc = "idle"
    /\ mem_access_list' = Append(mem_access_list, access)
    /\ UNCHANGED <<mem_pc, mem_result, mem_results>>

\* Library.t32_transfermemorybundleobj up to the entry of Link.receive
t32_transfermemorybundleobj(tx_ok) ==
    LET tx_data == memory_bundle_serialize(mem_access_list)
    IN /\ mem_pc = "idle"
       /\ pc = "idle"
       /\ IF tx_data.raised # ""
          THEN /\ mem_pc' = "done"
               /\ mem_result' = Raise(tx_data.raised)
               /\ UNCHANGED linkVars
          ELSE /\ generic_api_call(RAPI_CMD_DEVICE_SPECIFIC,
                                   RAPI_DSCMD_BUNDLE_OBJ_TRANSFER, FALSE,
                                   tx_data.bytes, 0, FALSE, tx_ok)
               /\ mem_pc' = "call"
               /\ UNCHANGED mem_result
       /\ UNCHANGED <<mem_access_list, mem_results>>

\* Library.t32_transfermemorybundleobj once generic_api_call has ended
transfer_resume ==
    /\ mem_pc = "call"
    /\ pc = "idle"
    /\ mem_pc' = "done"
    /\ LET d == memory_bundle_deserialize(mem_access_list, result.value, <<>>)
       IN IF result.kind = "raise"
          THEN /\ mem_result' = result
               /\ UNCHANGED mem_results
          ELSE IF d.raised # ""
          THEN /\ mem_result' = Raise(d.raised)
               /\ UNCHANGED mem_results
          ELSE /\ mem_result' = Return(<<>>)
               /\ mem_results' = d.results
    /\ UNCHANGED <<linkVars, mem_access_list>>

-----------------------------------------------------------------------------
(* _register.py *)

FV == <<70, 86>>
VA == <<86, 65>>

\* the names of Unit, as strs
UnitNames == {<<67, 80, 85>>, <<70, 80, 85>>, <<86, 80, 85>>}

\* Unit[name].value
UnitValue(name) ==
    IF name = <<67, 80, 85>> THEN CPU ELSE IF name = <<70, 80, 85>> THEN FPU ELSE VPU

\* Unit(n).name for a member n
UnitName(n) ==
    IF n = CPU THEN <<67, 80, 85>> ELSE IF n = FPU THEN <<70, 80, 85>> ELSE <<86, 80, 85>>

\* str.upper() for ASCII letters
upper(str) == [i \in 1..Len(str) |-> IF str[i] >= 97 /\ str[i] <= 122 THEN str[i] - 32 ELSE str[i]]

RECURSIVE decode_unicode_escape(_)
\* bytes.decode("unicode_escape"): Latin-1, with the escapes \\, \n and \t; a
\* backslash before another character that begins no escape stays
decode_unicode_escape(b) ==
    IF b = <<>> THEN [raised |-> "", str |-> <<>>]
    ELSE IF b[1] = 92 /\ Len(b) = 1 THEN [raised |-> "UnicodeDecodeError", str |-> <<>>]
    ELSE LET escape == b[1] = 92 /\ b[2] \in {92, 110, 116}
             c == IF ~escape THEN b[1]
                  ELSE IF b[2] = 92 THEN 92 ELSE IF b[2] = 110 THEN 10 ELSE 9
             rest == decode_unicode_escape(SliceFrom(b, IF escape THEN 2 ELSE 1))
         IN IF rest.raised # "" THEN rest
            ELSE [raised |-> "", str |-> <<c>> \o rest.str]

\* the fields of a Register
Register(core, name, unit, value, fvalue) ==
    [core |-> core, name |-> name, unit |-> unit, value |-> value, fvalue |-> fvalue]

\* a value setter that keeps fvalue, which C16 tells apart
value_setter_keeps_fvalue(r, value) ==
    IF value = PyNone THEN [raised |-> "", reg |-> [r EXCEPT !.value = PyNone]]
    ELSE IF IsInt(value) THEN [raised |-> "", reg |-> [r EXCEPT !.value = value]]
    ELSE [raised |-> "RegisterValueError", reg |-> r]

\* Register.value setter: [raised, reg]
value_setter(r, value) ==
    IF value = PyNone THEN [raised |-> "", reg |-> [r EXCEPT !.value = PyNone]]
    ELSE IF IsInt(value)
    THEN [raised |-> "", reg |-> [r EXCEPT !.value = value, !.fvalue = PyNone]]
    ELSE [raised |-> "RegisterValueError", reg |-> r]

\* Register.fvalue setter: [raised, reg]
fvalue_setter(r, fvalue) ==
    IF fvalue = PyNone THEN [raised |-> "", reg |-> [r EXCEPT !.fvalue = PyNone]]
    ELSE IF fvalue.type = "float"
    THEN [raised |-> "", reg |-> [r EXCEPT !.fvalue = fvalue, !.value = PyNone]]
    ELSE [raised |-> "RegisterValueError", reg |-> r]

\* Register.__init__: [raised, reg]
register_init(core, name, value, unit, fvalue) ==
    LET v == value_setter(Register(core, name, unit, PyNone, PyNone), value)
    IN IF v.raised # "" THEN v ELSE fvalue_setter(v.reg, fvalue)

\* Register._deserialize, the name: st is [raised, reg, counter]
deserialize_name(st, data) ==
    LET name_len == int_from_bytes(Slice(data, 2, 3))
        name == decode_unicode_escape(Slice(data, 4, 4 + name_len))
    IN IF Slice(data, 0, 2) # NM THEN st
       ELSE IF name.raised # "" THEN [st EXCEPT !.raised = name.raised]
       ELSE IF name.str = <<>> THEN [st EXCEPT !.raised = "IndexError"]
       ELSE [st EXCEPT !.reg.name = PyStr(IF name.str[Len(name.str)] = 0
                                          THEN SubSeq(name.str, 1, Len(name.str) - 1)
                                          ELSE name.str),
                       !.counter = 4 + name_len]

\* Register._deserialize, the type
deserialize_type(st, data) ==
    LET counter == st.counter
        reg_type == int_from_bytes(Slice(data, counter + 2, counter + 4))
    IN IF st.raised # "" \/ Slice(data, counter, counter + 2) # TY THEN st
       ELSE IF reg_type \notin {CPU, FPU, VPU} THEN [st EXCEPT !.raised = "ValueError"]
       ELSE [st EXCEPT !.reg.unit = PyStr(UnitName(reg_type)), !.counter = counter + 4]

\* Register._deserialize, the value
deserialize_value(st, data) ==
    LET counter == st.counter
    IN IF st.raised # "" \/ Slice(data, counter, counter + 2) # VA THEN st
       ELSE [st EXCEPT !.reg.value = PyInteger(int_from_bytes_unsigned(
                                         Slice(data, counter + 2, counter + 10))),
                       !.counter = counter + 10]

\* Register._deserialize, the floating point value
deserialize_fvalue(st, data) ==
    LET counter == st.counter
        bits == Slice(data, counter + 2, counter + 10)
    IN IF st.raised # "" \/ Slice(data, counter, counter + 2) # FV THEN st
       ELSE IF Len(bits) # 8 THEN [st EXCEPT !.raised = "struct.error"]
       ELSE [st EXCEPT !.reg.fvalue = PyFloat(bits), !.counter = counter + 10]

\* Register._deserialize, the core
deserialize_core(st, data) ==
    LET counter == st.counter
    IN IF st.raised # "" \/ Slice(data, counter, counter + 2) # CO THEN st
       ELSE [st EXCEPT !.reg.core = PyInteger(int_from_bytes_signed(
                                        Slice(data, counter + 2, counter + 4))),
                       !.counter = counter + 4]

\* Register._deserialize(data) on a register with the fields r:
\* [raised, reg, counter], counter being what it returns
register_deserialize(r, data) ==
    LET st == deserialize_core(deserialize_fvalue(deserialize_value(deserialize_type(
                  deserialize_name([raised |-> "", reg |-> r, counter |-> 0], data),
                  data), data), data), data)
    IN IF st.raised # "" \/ Slice(data, st.counter, st.counter + 2) = XX THEN st
       ELSE [st EXCEPT !.counter = st.counter + 1]

\* Register._serialize on a host with little-endian byte order: [raised, bytes]
register_serialize(r) ==
    LET name_len == Len(r.name.mag) + (Len(r.name.mag) % 2)
        name == IF r.name = PyNone THEN <<>>
                ELSE NM \o to_bytes(name_len, 2) \o pack_s(encode(r.name.mag), name_len)
        reg_type == IF r.unit = PyNone THEN CPU ELSE UnitValue(upper(r.unit.mag))
        q == int_to_bytes_signed(PyInt(r.value.neg, r.value.mag), 8)
        uq == int_to_bytes(PyInt(r.value.neg, r.value.mag), 8)
        core == int_to_bytes(PyInt(r.core.neg, r.core.mag), 2)
    IN IF r.name # PyNone /\ r.name.type # "str"
       THEN [raised |-> "TypeError", bytes |-> <<>>]
       ELSE IF r.unit # PyNone /\ r.unit.type # "str"
       THEN [raised |-> "TypeError", bytes |-> <<>>]
       ELSE IF r.unit # PyNone /\ upper(r.unit.mag) \notin UnitNames
       THEN [raised |-> "ValueError", bytes |-> <<>>]
       ELSE IF r.value # PyNone /\ ~IsInt(r.value)
       THEN [raised |-> "TypeError", bytes |-> <<>>]
       ELSE IF r.value # PyNone /\ q.raised # "" /\ uq.raised # ""
       THEN [raised |-> "struct.error", bytes |-> <<>>]
       ELSE IF r.fvalue # PyNone /\ r.fvalue.type # "float"
       THEN [raised |-> "TypeError", bytes |-> <<>>]
       ELSE IF r.core # PyNone /\ ~IsInt(r.core)
       THEN [raised |-> "TypeError", bytes |-> <<>>]
       ELSE IF r.core # PyNone /\ core.raised # ""
       THEN [raised |-> "struct.error", bytes |-> <<>>]
       ELSE [raised |-> "",
             bytes |-> name \o TY \o to_bytes(reg_type, 2)
                 \o (IF r.value = PyNone THEN <<>>
                     ELSE VA \o (IF q.raised = "" THEN q.bytes ELSE uq.bytes))
                 \o (IF r.fvalue = PyNone THEN <<>> ELSE FV \o r.fvalue.mag)
                 \o (IF r.core = PyNone THEN <<>> ELSE CO \o core.bytes)
                 \o XX \o XX]

RECURSIVE deserialize_registers(_, _, _)
\* RegisterService.__deserialize_registers: the while loop from counter on,
\* registers being the list so far: [raised, registers]
deserialize_registers(data, counter, registers) ==
    IF ~(counter < Len(data)) THEN [raised |-> "", registers |-> registers]
    ELSE LET d == register_deserialize(Register(PyNone, PyNone, PyNone, PyNone, PyNone),
                                       SliceFrom(data, counter))
             after == counter + d.counter
         IN IF d.raised # "" THEN [raised |-> d.raised, registers |-> registers]
            ELSE IF Slice(data, after, after + 2) = XX /\ d.reg.name # PyNone
            THEN deserialize_registers(data, after + 4, Append(registers, d.reg))
            ELSE deserialize_registers(data, after + 1, registers)

\* an operation on the register ends: its fields and what it raised
register_ends(op, arg, out) ==
    /\ reg_op' = [op |-> op, arg |-> arg]
    /\ reg' = out.reg
    /\ reg_raised' = out.raised

\* register.value = value
set_value(value) == register_ends("value", value, value_setter(reg, value))

\* register.fvalue = fvalue
set_fvalue(fvalue) == register_ends("fvalue", fvalue, fvalue_setter(reg, fvalue))

\* register._deserialize(data)
deserialize(data) ==
    register_ends("_deserialize", Obj("bytes", FALSE, data), register_deserialize(reg, data))

\* Register.read: read_list([self]) serializes the register, the debugger
\* answers with payload (None when the response holds none), the first
\* register decoded from it is serialized again and deserialized into self
read(payload) ==
    LET sent == register_serialize(reg)
        registers == deserialize_registers(payload, 0, <<>>)
        first == register_serialize(registers.registers[1])
        failed(exc) == [raised |-> exc, reg |-> reg]
    IN register_ends("read", Obj("bytes", FALSE, payload),
           IF sent.raised # "" THEN failed(sent.raised)
           ELSE IF payload = None THEN failed("RegisterError")
           ELSE IF registers.raised # "" THEN failed(registers.raised)
           ELSE IF registers.registers = <<>> THEN failed("IndexError")
           ELSE IF first.raised # "" THEN failed(first.raised)
           ELSE register_deserialize(reg, first.bytes))

-----------------------------------------------------------------------------
(* The peer and the caller *)

\* ids a peer answers with while the counter is mid: the previous request's,
\* the current one's, and two ids the client has not used yet
ResponseIds(mid) ==
    {get_message_id(mid), get_message_id(mid) + 1, get_message_id(mid) + 2}
        \cup (IF mid > 0 THEN {get_message_id(mid - 1)} ELSE {})

\* status bytes of the peer's responses: ok, a code absent from the table,
\* T32_ERR_STD_BUSERROR, T32_ERR_FN1 and T32_ERR_STD_ATTACH
Statuses == {0, 5, 16, 90, 254}

\* response messages of the peer
PeerMessages(mid) ==
    {<<s, i>> : s \in Statuses, i \in ResponseIds(mid)}
        \cup {<<0, get_message_id(mid), 42, 43>>, <<>>, <<7>>}

\* what one recvfrom returns: one frame (a response, a notification, a frame
\* of a type that is neither) or two responses back to back
PeerReads(mid) ==
    {PeerFrame(RCL_RESP, m) : m \in PeerMessages(mid)}
        \cup {PeerFrame(T32_NETTCP_RCL_REQ, <<0, get_message_id(mid)>>)}
        \cup {PeerFrame(RCL_RESP, <<s1, i1>>) \o PeerFrame(RCL_RESP, <<s2, i2>>) :
                 s1 \in {0, 254}, s2 \in {0}, i1 \in ResponseIds(mid),
                 i2 \in ResponseIds(mid)}

\* a notification frame
PeerNotification == PeerFrame(RCL_NOTIFY, <<1, 0>>)

\* what one recvfrom returns in SpecIds: one response
IdReads(mid) ==
    {PeerFrame(RCL_RESP, <<s, i>>) : s \in {0, 5}, i \in ResponseIds(mid)}

\* a call of the API by the user of a constructed Debugger
UserCall(maxcalls, Cmds, Payloads, ForceLengths, Force16) ==
    /\ dbg \in {"ready", "disconnected"}
    /\ message_id < maxcalls
    /\ \E rapi_cmd \in Cmds, sendonly \in BOOLEAN, payload \in Payloads,
          force_length \in ForceLengths, force_16bit_length \in Force16,
          tx_ok \in BOOLEAN :
          generic_api_call(rapi_cmd, 0, sendonly, payload, force_length,
                           force_16bit_length, tx_ok)
    /\ UNCHANGED <<syncVars, bundleVars, execVars, objVars>>

Attach ==
    /\ \E tx_ok \in BOOLEAN : t32_attach(tx_ok)
    /\ UNCHANGED <<syncVars, bundleVars, execVars, objVars>>

Init_ ==
    /\ \E connect_ok \in BOOLEAN : t32_init(connect_ok)
    /\ UNCHANGED <<syncVars, bundleVars, execVars, objVars>>

Exit_ == t32_exit /\ UNCHANGED <<syncVars, bundleVars, execVars, objVars>>

Disconnect == disconnect /\ UNCHANGED <<syncVars, bundleVars, execVars, objVars>>

Receive == ReceiveStep /\ UNCHANGED <<syncVars, bundleVars, execVars, objVars>>

Timeout == PollTimeout /\ UNCHANGED <<syncVars, bundleVars, execVars, objVars>>

Poll ==
    /\ \E message_received \in PeerReads(message_id) : PollResponse(message_received)
    /\ UNCHANGED <<syncVars, bundleVars, execVars, objVars>>

PollNotification ==
    /\ Len(notify_queue) < MaxNotify
    /\ PollResponse(PeerNotification)
    /\ UNCHANGED <<syncVars, bundleVars, execVars, objVars>>

PollId ==
    /\ \E message_received \in IdReads(message_id) : PollResponse(message_received)
    /\ UNCHANGED <<syncVars, bundleVars, execVars, objVars>>

\* the payloads of the frames of SpecTcp: 1, 2, ... and 0, 0, ...
FramePayloads ==
    {[i \in 1..n |-> i] : n \in 0..MaxFrameLen}
        \cup {[i \in 1..n |-> 0] : n \in 1..MaxFrameLen}

\* the frames of SpecTcp
Frames ==
    {PeerFrame(t, p) : t \in {RCL_RESP, RCL_NOTIFY, T32_NETTCP_RCL_REQ},
                       p \in FramePayloads}

\* the two reads that deliver frame f cut after k bytes
SplitFrame(f, k) ==
    [pending |-> <<SubSeq(f, 1, k), SubSeq(f, k + 1, Len(f))>>, done |-> <<>>]

\* the ways the stream delivers one frame in two reads
SplitFrames == UNION {{SplitFrame(f, k) : k \in 0..Len(f)} : f \in Frames}

\* CommunicationTcp.poll_response, recvfrom returning the next piece of the stream
PollRead ==
    /\ reads.pending # <<>>
    /\ socket = "connected"
    /\ LET st == tcp_poll_response(socket_content, response_queue, notify_queue,
                                   Head(reads.pending))
       IN /\ socket_content' = st.socket_content
          /\ response_queue' = st.response_queue
          /\ notify_queue' = st.notify_queue
          /\ result' = (IF st.raised # "" THEN Raise(st.raised) ELSE result)
    /\ reads' = [pending |-> Tail(reads.pending),
                 done |-> Append(reads.done, Head(reads.pending))]
    /\ UNCHANGED <<socket, message_id, pc, args, recv_message_id, send_data, wire,
                   dbg, ops>>
    /\ UNCHANGED <<syncVars, bundleVars, execVars, objVars>>

\* what the UDP peer sends during sync: a sync-back-request, a sync-ack with a
\* block id, either of them cut short, a sync-ack without the magic pattern,
\* a datagram of another type, an empty datagram
SyncDatagrams ==
    {sync_datagram(T32_API_SYNCBACKREQ, 0),
     sync_datagram(T32_API_SYNCACKN, 1),
     sync_datagram(T32_API_SYNCACKN, 513),
     Slice(sync_datagram(T32_API_SYNCBACKREQ, 0), 0, 8),
     Slice(sync_datagram(T32_API_SYNCACKN, 1), 0, 15),
     <<T32_API_SYNCACKN, 0>> \o to_bytes(1, 2) \o to_bytes(0, 4) \o Zeros(8),
     sync_datagram(T32_API_SYNCBACK, 0),
     <<>>}

Sync ==
    /\ \E maxTries \in 0..MaxTries, tx_ok \in BOOLEAN : sync(maxTries, tx_ok)
    /\ UNCHANGED <<linkVars, bundleVars, execVars, objVars>>

SyncRecvfrom ==
    /\ \E recv_data \in SyncDatagrams, tx_ok \in BOOLEAN : sync_recvfrom(recv_data, tx_ok)
    /\ UNCHANGED <<linkVars, bundleVars, execVars, objVars>>

SyncTimeout == sync_timeout /\ UNCHANGED <<linkVars, bundleVars, execVars, objVars>>

\* a shift of n bytes of TDI
ShiftTdi(n) == Access(SHIFTRAW, 0, 0, 0, 0, 8 * n, None, Zeros(n), FALSE)

\* the accesses a caller adds: a get-info, a set-info, a capture of TDO
\* without patterns, and shifts that serialize to 0x1E00, 0x3BFF and 0x3C00 bytes
Accesses ==
    {Access(GETINFO, 1, 0, 101, 0, 0, None, None, FALSE),
     Access(SETINFO, 1, 0, 101, 5, 0, None, None, FALSE),
     Access(SHIFTRAW, 0, 0, 0, 0, 9, None, None, TRUE),
     ShiftTdi(7666), ShiftTdi(15345), ShiftTdi(15346)}

AddAccess ==
    /\ Len(access_list) < MaxAccesses
    /\ \E access \in Accesses : add_access(access)
    /\ UNCHANGED <<linkVars, syncVars, execVars, objVars>>

GetRequests ==
    /\ \E release \in BOOLEAN : get_requests(release)
    /\ UNCHANGED <<linkVars, syncVars, execVars, objVars>>

GetRequestsNext == get_requests_next /\ UNCHANGED <<linkVars, syncVars, execVars, objVars>>

\* the accesses of a bundle that is executed: one of each kind, a shift that
\* fills half a request and one too large for any request
ExecAccesses ==
    {Access(GETINFO, 1, 0, 101, 0, 0, None, None, FALSE),
     Access(SETINFO, 1, 0, 101, 5, 0, None, None, FALSE),
     Access(SHIFTRAW, 0, 0, 0, 0, 9, None, None, TRUE),
     ShiftTdi(7666), ShiftTdi(15346)}

ExecAddAccess ==
    /\ Len(access_list) < MaxAccesses
    /\ \E access \in ExecAccesses : add_access(access)
    /\ UNCHANGED <<linkVars, syncVars, execVars, objVars>>

Execute ==
    /\ \E release \in BOOLEAN, tx_ok \in BOOLEAN : execute(release, tx_ok)
    /\ UNCHANGED <<syncVars, objVars>>

ExecuteResume ==
    /\ \E tx_ok \in BOOLEAN : execute_resume(tx_ok)
    /\ UNCHANGED <<syncVars, objVars>>

\* what one recvfrom returns while _execute waits: the response to the
\* request, ok without data, ok with twelve bytes, or T32_ERR_STD_BUSERROR
ExecReads(mid) ==
    {PeerFrame(RCL_RESP, <<s, get_message_id(mid)>> \o d) :
         s \in {0, 16}, d \in {<<>>, [i \in 1..12 |-> i]}}

ExecPoll ==
    /\ \E message_received \in ExecReads(message_id) : PollResponse(message_received)
    /\ UNCHANGED <<syncVars, bundleVars, execVars, objVars>>

\* n bytes of data
Data(n) == [i \in 1..n |-> 165]

\* the addresses of the memory accesses: D:0x1000 and 0x4
MemAddresses == {Address(<<68>>, PyInt(FALSE, <<0, 16>>)), Address(None, PyInt(FALSE, <<4>>))}

\* the accesses a caller adds to a memory bundle: reads of four bytes, a
\* read-write of two bytes, and writes of 1 byte, of 15328 bytes (the bundle
\* is 0x3C00 bytes long), of 15329 bytes and of 32768 bytes
MemoryAccesses ==
    {MemoryAccess(READ, a, 4, <<>>, <<>>) : a \in MemAddresses}
        \cup {MemoryAccess(READWRITE, Address(<<68>>, PyInt(FALSE, <<0, 16>>)), 2,
                           <<1, 2>>, <<255, 0>>)}
        \cup {MemoryAccess(WRITE, Address(<<68>>, PyInt(FALSE, <<0, 16>>)), n,
                           Data(n), <<>>) : n \in {1, 15328, 15329, 32768}}

MemoryAdd ==
    /\ Len(mem_access_list) < MaxMemAccesses
    /\ \E access \in MemoryAccesses : memory_add(access)
    /\ UNCHANGED <<linkVars, syncVars, bundleVars, execVars, regVars, codecVars, methodVars>>

Transfer ==
    /\ \E tx_ok \in BOOLEAN : t32_transfermemorybundleobj(tx_ok)
    /\ UNCHANGED <<syncVars, bundleVars, execVars, regVars, codecVars, methodVars>>

TransferResume == transfer_resume /\ UNCHANGED <<syncVars, bundleVars, execVars, regVars, codecVars, methodVars>>

\* what one recvfrom returns while the transfer waits: the response to the
\* request with T32_ERR_STD_BUSERROR, or ok with no data, one or two ok
\* flags, an ok flag and four bytes, or an error flag
MemReads(mid) ==
    {PeerFrame(RCL_RESP, <<16, get_message_id(mid)>>)}
        \cup {PeerFrame(RCL_RESP, <<0, get_message_id(mid)>> \o d) :
                 d \in {<<>>, <<1, 0>> \o XX, <<1, 0, 1, 0>> \o XX,
                        <<1, 0, 9, 8, 7, 6>> \o XX, <<0, 0>> \o XX}}

MemPoll ==
    /\ \E message_received \in MemReads(message_id) : PollResponse(message_received)
    /\ UNCHANGED <<syncVars, bundleVars, execVars, objVars>>

\* the doubles 1.5 and -2.0
Float1_5 == <<0, 0, 0, 0, 0, 0, 248, 63>>
FloatMinus2 == <<0, 0, 0, 0, 0, 0, 0, 192>>

\* the strs "R0", "F0", "cpu" and "x"
StrR0 == <<82, 48>>
StrF0 == <<70, 48>>
StrCpu == <<99, 112, 117>>
StrX == <<120>>

\* what a caller assigns to value and fvalue: None, 5, -1, 1.5, "x" and True
SetterArguments ==
    {PyNone, PyInteger(PyInt(FALSE, <<5>>)), PyInteger(PyInt(TRUE, <<1>>)),
     PyFloat(Float1_5), PyStr(StrX), Obj("bool", FALSE, <<1>>)}

\* data a caller hands to _deserialize: a value, a floating point value,
\* both, a whole register, nothing, and a type that is no Unit
RegisterData ==
    {VA \o to_bytes(7, 8) \o XX,
     FV \o FloatMinus2 \o XX,
     VA \o to_bytes(7, 8) \o FV \o FloatMinus2 \o XX,
     NM \o to_bytes(2, 2) \o StrR0 \o TY \o to_bytes(CPU, 2) \o VA \o to_bytes(7, 8)
         \o CO \o to_bytes(1, 2) \o XX \o XX,
     <<>>,
     TY \o to_bytes(9, 2) \o XX}

\* payloads the debugger answers a read with: none, an empty one, a register
\* with a value and one with a floating point value
ReadPayloads ==
    {None, <<>>,
     NM \o to_bytes(2, 2) \o StrR0 \o TY \o to_bytes(CPU, 2) \o VA \o to_bytes(7, 8)
         \o XX \o XX,
     NM \o to_bytes(2, 2) \o StrF0 \o TY \o to_bytes(FPU, 2) \o FV \o Float1_5
         \o XX \o XX}

SetValue ==
    /\ \E value \in SetterArguments : set_value(value)
    /\ UNCHANGED <<linkVars, syncVars, bundleVars, execVars, memVars, codecVars, methodVars>>

SetFvalue ==
    /\ \E fvalue \in SetterArguments : set_fvalue(fvalue)
    /\ UNCHANGED <<linkVars, syncVars, bundleVars, execVars, memVars, codecVars, methodVars>>

Deserialize ==
    /\ \E data \in RegisterData : deserialize(data)
    /\ UNCHANGED <<linkVars, syncVars, bundleVars, execVars, memVars, codecVars, methodVars>>

Read ==
    /\ \E payload \in ReadPayloads : read(payload)
    /\ UNCHANGED <<linkVars, syncVars, bundleVars, execVars, memVars, codecVars, methodVars>>

-----------------------------------------------------------------------------
(* Initial states *)

\* CommunicationBase.__init__, Link.__init__ (which connects), as
\* Debugger.__init__ has run them before it calls connect()
LinkFields ==
    /\ socket = "connected"
    /\ socket_content = <<>>
    /\ response_queue = <<>>
    /\ notify_queue = <<>>
    /\ message_id = 0
    /\ pc = "idle"
    /\ args = NoArgs
    /\ recv_message_id = 0
    /\ send_data = <<>>
    /\ wire = <<>>
    /\ result = NoResult
    /\ ops = <<>>

LinkInit ==
    /\ reads = NoReads
    /\ dbg = "init_1"
    /\ LinkFields

SyncIdle ==
    /\ sync_stack = <<>>
    /\ sync_max = 0
    /\ sync_recvd = 0
    /\ sync_sent = 0
    /\ sync_result = "none"
    /\ receive_block_id = 0

BundleIdle ==
    /\ access_list = <<>>
    /\ release_debug_port = TRUE
    /\ gen_pc = "idle"
    /\ gen_idx = 0
    /\ request = BundleRequest
    /\ yielded = <<>>

ExecIdle ==
    /\ exec_pc = "idle"
    /\ exec_result = NoResult
    /\ results = <<>>
    /\ transmitted = 0

MemIdle ==
    /\ mem_access_list = <<>>
    /\ mem_pc = "idle"
    /\ mem_result = NoResult
    /\ mem_results = <<>>

\* Register(conn)
RegIdle ==
    /\ reg = Register(PyNone, PyNone, PyNone, PyNone, PyNone)
    /\ reg_op = [op |-> "__init__", arg |-> PyNone]
    /\ reg_raised = ""

\* no call of serialize or deserialize
NoCall == [pc |-> "idle", exc |-> "", read_ptr |-> 0]

CodecIdle ==
    /\ codec = ""
    /\ obj = None
    /\ record = None
    /\ dec = NoCall

\* no method running
NoMethod == [name |-> "", pc |-> "idle"]

MethodIdle ==
    /\ method = NoMethod
    /\ method_result = NoResult
    /\ method_requests = <<>>

ObjIdle == MemIdle /\ RegIdle /\ CodecIdle /\ MethodIdle

Init == LinkInit /\ SyncIdle /\ BundleIdle /\ ExecIdle /\ ObjIdle

Next ==
    \/ Init_
    \/ Attach
    \/ Exit_
    \/ UserCall(MaxCalls, {RAPI_CMD_NOP}, {<<>>}, {NoForceLength}, {FALSE})
    \/ Receive
    \/ Poll
    \/ PollNotification
    \/ Timeout
    \/ Disconnect

Spec == Init /\ [][Next]_vars

NextIds ==
    \/ Init_
    \/ Attach
    \/ Exit_
    \/ UserCall(MaxIdCalls, {RAPI_CMD_NOP}, {<<>>}, {NoForceLength}, {FALSE})
    \/ Receive
    \/ PollId
    \/ Timeout

SpecIds == Init /\ [][NextIds]_vars

\* a connected link whose peer sends one frame in two pieces
InitTcp ==
    /\ reads \in SplitFrames
    /\ dbg = "ready"
    /\ LinkFields
    /\ SyncIdle
    /\ BundleIdle
    /\ ExecIdle
    /\ ObjIdle

NextTcp == PollRead

NextSync ==
    \/ Sync
    \/ SyncRecvfrom
    \/ SyncTimeout

SpecSync == Init /\ [][NextSync]_vars

NextBundle ==
    \/ AddAccess
    \/ GetRequests
    \/ GetRequestsNext

SpecBundle == Init /\ [][NextBundle]_vars

SpecTcp == InitTcp /\ [][NextTcp]_vars

\* payloads of SpecEnvelope's calls: n bytes of 0xAB
EnvelopePayloads ==
    {[i \in 1..n |-> 171] : n \in {0, 1, 10, 253, 254, 61436, 61437}}

NextEnvelope ==
    \/ Init_
    \/ Attach
    \/ Exit_
    \/ UserCall(MaxEnvelopeCalls, {RAPI_CMD_DEVICE_SPECIFIC}, EnvelopePayloads,
                {NoForceLength, 8}, BOOLEAN)
    \/ Receive
    \/ PollId
    \/ Timeout

SpecEnvelope == Init /\ [][NextEnvelope]_vars

\* a constructed Debugger whose user fills a bundle and executes it
InitExecute ==
    /\ reads = NoReads
    /\ dbg = "ready"
    /\ LinkFields
    /\ SyncIdle
    /\ BundleIdle
    /\ ExecIdle
    /\ ObjIdle

NextExecute ==
    \/ ExecAddAccess
    \/ Execute
    \/ ExecuteResume
    \/ Receive
    \/ ExecPoll
    \/ Timeout

SpecExecute == InitExecute /\ [][NextExecute]_vars

NextMemory ==
    \/ MemoryAdd
    \/ Transfer
    \/ TransferResume
    \/ Receive
    \/ MemPoll
    \/ Timeout

\* a constructed Debugger whose user fills a memory bundle and transfers it
SpecMemory == InitExecute /\ [][NextMemory]_vars

\* the registers a caller constructs: with and without name, unit, value and
\* floating point value, the constructor not raising
Constructed ==
    {register_init(PyNone, name, value, unit, fvalue).reg :
         name \in {PyNone, PyStr(StrR0)}, unit \in {PyNone, PyStr(StrCpu)},
         value \in {PyNone, PyInteger(PyInt(FALSE, <<5>>))},
         fvalue \in {PyNone, PyFloat(Float1_5)}}

\* a Register after its construction
InitRegister ==
    /\ reg \in Constructed
    /\ reg_op = [op |-> "__init__", arg |-> PyNone]
    /\ reg_raised = ""
    /\ LinkInit
    /\ SyncIdle
    /\ BundleIdle
    /\ ExecIdle
    /\ MemIdle
    /\ CodecIdle
    /\ MethodIdle

NextRegister ==
    \/ SetValue
    \/ SetFvalue
    \/ Deserialize
    \/ Read

SpecRegister == InitRegister /\ [][NextRegister]_vars

-----------------------------------------------------------------------------
(* serialize and deserialize of _address.py applied to an Address *)

\* the call of a deserialize that has not started yet
Called == [NoCall EXCEPT !.pc = "call"]

\* x.serialize() of an object: record holds the bytes, or the exception ends
\* the run
codec_serialize(from, s) ==
    /\ codec # ""
    /\ record = None
    /\ dec.pc = from
    /\ IF s.raised # ""
       THEN /\ dec' = [NoCall EXCEPT !.pc = "raise", !.exc = s.raised]
            /\ UNCHANGED record
       ELSE /\ record' = s.bytes
            /\ dec' = Called
    /\ UNCHANGED <<codec, obj>>

\* one more step of the deserialize that runs on record
codec_step(class, from, st) ==
    /\ codec = class
    /\ dec.pc = from
    /\ dec' = st
    /\ UNCHANGED <<codec, obj, record>>

AddressSerialize ==
    /\ codec = "Address"
    /\ \E width \in {NoWidth, 1, 4} : codec_serialize("idle", address_serialize(obj, width))
    /\ UNCHANGED <<linkVars, syncVars, bundleVars, execVars, memVars, regVars, methodVars>>

AddressBegin ==
    /\ codec_step("Address", "call", address_begin(record))
    /\ UNCHANGED <<linkVars, syncVars, bundleVars, execVars, memVars, regVars, methodVars>>

AddressIter ==
    /\ codec_step("Address", "loop", address_iter(record, dec))
    /\ UNCHANGED <<linkVars, syncVars, bundleVars, execVars, memVars, regVars, methodVars>>

\* address values from 0 to 2^64 - 1
AddressValues ==
    {PyInt(FALSE, <<>>), PyInt(FALSE, <<1>>), PyInt(FALSE, <<0, 16>>),
     PyInt(FALSE, <<255, 255, 255, 255>>), PyInt(FALSE, <<0, 0, 0, 0, 1>>),
     PyInt(FALSE, <<239, 205, 171, 137, 103, 69, 35, 1>>),
     PyInt(FALSE, <<255, 255, 255, 255, 255, 255, 255, 255>>)}

\* access codes: None, "D", "SD", "AHB", "E:SD"
AccessCodes == {None, <<68>>, <<83, 68>>, <<65, 72, 66>>, <<69, 58, 83, 68>>}

Addresses == {Address(access, value) : access \in AccessCodes, value \in AddressValues}

\* everything but the codec at rest
CodecInit ==
    /\ LinkInit
    /\ SyncIdle
    /\ BundleIdle
    /\ ExecIdle
    /\ MemIdle
    /\ RegIdle
    /\ MethodIdle
    /\ record = None
    /\ dec = NoCall

InitAddress ==
    /\ codec = "Address"
    /\ obj \in Addresses
    /\ CodecInit

NextAddress ==
    \/ AddressSerialize
    \/ AddressBegin
    \/ AddressIter

SpecAddress == InitAddress /\ [][NextAddress]_vars

-----------------------------------------------------------------------------
(* _breakpoint.py *)

\* a member of an IntEnum class, or another object where one is expected
Member(type, value) == [type |-> type, value |-> value]
NoMember == Member("NoneType", 0)

\* Breakpoint.Action, Breakpoint.Type, Breakpoint.Impl: the values of the members
ActionValues ==
    {0, 1, 2, 4, 8, 16, 32, 64, 33554432, 67108864, 134217728, 268435456,
     536870912, 1073741824}
TypeValues == {0, 1, 2, 4, 6}
ImplValues == {0, 1, 2, 4, 8}
PROGRAM == 1
AUTO == 0
NONE == 0

\* address=None
NoAddress == Address(Unbound, PyInt(FALSE, <<>>))

\* isinstance(address, Address)
IsAddress(address) == address.access # Unbound

\* the call of an IntEnum class with the integer the bytes b hold:
\* [raised, value]
enum_call(type, values, b) ==
    IF \E v \in values : PyInt(FALSE, to_bytes(v, 4)) = PyInt(FALSE, b)
    THEN [raised |-> "",
          value |-> Member(type, CHOOSE v \in values :
                                     PyInt(FALSE, to_bytes(v, 4)) = PyInt(FALSE, b))]
    ELSE [raised |-> "ValueError", value |-> NoMember]

\* the setters of action, impl and type_: [raised, value]; a str, which they
\* look up by name, is not among the arguments
enum_setter(type, v) ==
    IF v.type = "NoneType" THEN [raised |-> "", value |-> NoMember]
    ELSE IF v.type = type THEN [raised |-> "", value |-> v]
    ELSE [raised |-> "TypeError", value |-> NoMember]

Breakpoint(action, address, core, size, type_, impl, enabled) ==
    [action |-> action, address |-> address, core |-> core, enabled |-> enabled,
     impl |-> impl, size |-> size, type_ |-> type_]

\* Breakpoint.__init__ with the keyword arguments kw: [raised, self]
breakpoint_init(kw) ==
    LET action == enum_setter("Action", kw.action)
        impl == enum_setter("Impl", kw.impl)
        type_ == enum_setter("Type", kw.type_)
    IN [raised |-> IF action.raised # "" THEN action.raised
                   ELSE IF impl.raised # "" THEN impl.raised
                   ELSE type_.raised,
        self |-> Breakpoint(action.value, kw.address, kw.core, kw.size,
                            type_.value, impl.value, kw.enabled)]

\* Breakpoint(conn)
NewBreakpoint == Breakpoint(NoMember, NoAddress, PyNone, PyNone, NoMember, NoMember, TRUE)

\* struct.pack "<Q" (k = 8) and "<I" (k = 4) of the object v: [raised, bytes]
pack_unsigned(v, k) ==
    LET b == int_to_bytes(PyInt(v.neg, v.mag), k)
    IN IF ~IsInt(v) \/ b.raised # "" THEN [raised |-> "struct.error", bytes |-> <<>>]
       ELSE b

\* Breakpoint.serialize: [raised, bytes]
breakpoint_serialize(self) ==
    LET addr_params == address_serialize(self.address, NoWidth)
        size == pack_unsigned(self.size, 8)
        core == pack_unsigned(self.core, 4)
        member(m, default) == IF m # NoMember THEN m.value ELSE default
    IN IF ~IsAddress(self.address) THEN [raised |-> "BreakpointError", bytes |-> <<>>]
       ELSE IF addr_params.raised # "" THEN addr_params
       ELSE IF self.size # PyNone /\ size.raised # "" THEN size
       ELSE IF self.core # PyNone /\ core.raised # "" THEN core
       ELSE [raised |-> "",
             bytes |-> AD \o addr_params.bytes
                 \o (IF self.size # PyNone THEN SZ \o size.bytes ELSE <<>>)
                 \o TY \o to_bytes(member(self.type_, PROGRAM), 4)
                 \o IM \o to_bytes(member(self.impl, AUTO), 4)
                 \o CA \o to_bytes(member(self.action, NONE), 4)
                 \o EN \o (IF self.enabled THEN <<1, 0>> ELSE <<0, 0>>)
                 \o (IF self.core # PyNone THEN CO \o core.bytes ELSE <<>>)
                 \o XX \o <<0, 0>>]

\* b"jj", b"hh"
jj == <<106, 106>>
hh == <<104, 104>>

\* self.deserialize up to its loop: the state of the call
breakpoint_begin(self) == [pc |-> "loop", exc |-> "", read_ptr |-> 0, self |-> self]

\* Breakpoint.deserialize: the test of the while loop and one run of its body,
\* or the return that follows the loop
breakpoint_iter(recv_buffer, st) ==
    LET read_ptr == st.read_ptr + 2
        parameter_id == Slice(recv_buffer, st.read_ptr, st.read_ptr + 2)
        field(n) == Slice(recv_buffer, read_ptr, read_ptr + n)
        address == address_deserialize(SliceFrom(recv_buffer, read_ptr))
        type_ == enum_call("Type", TypeValues, field(4))
        impl == enum_call("Impl", ImplValues, field(4))
        action == enum_call("Action", ActionValues, field(4))
        raise(exc) == [st EXCEPT !.pc = "raise", !.exc = exc, !.read_ptr = read_ptr]
    IN IF ~(st.read_ptr < Len(recv_buffer)) THEN [st EXCEPT !.pc = "return"]
       ELSE IF parameter_id = SZ
       THEN [st EXCEPT !.read_ptr = read_ptr + 8,
                       !.self.size = PyInteger(int_from_bytes_unsigned(field(8)))]
       ELSE IF parameter_id = AD
       THEN IF address.pc = "raise" THEN raise(address.exc)
            ELSE [st EXCEPT !.read_ptr = read_ptr + address.read_ptr,
                            !.self.address = Address(address.access, address.value)]
       ELSE IF parameter_id = TY
       THEN IF type_.raised # "" THEN raise(type_.raised)
            ELSE [st EXCEPT !.read_ptr = read_ptr + 4, !.self.type_ = type_.value]
       ELSE IF parameter_id \in {DM, IM}
       THEN IF impl.raised # "" THEN raise(impl.raised)
            ELSE [st EXCEPT !.read_ptr = read_ptr + 4, !.self.impl = impl.value]
       ELSE IF parameter_id = jj
       THEN [st EXCEPT !.pc = "return", !.read_ptr = read_ptr,
                       !.self.type_ = Member("Type", 0),
                       !.self.impl = Member("Impl", 0)]
       ELSE IF parameter_id = hh
       THEN [st EXCEPT !.read_ptr = read_ptr + 2]
       ELSE IF parameter_id = CA
       THEN IF action.raised # "" THEN raise(action.raised)
            ELSE [st EXCEPT !.read_ptr = read_ptr + 4, !.self.action = action.value]
       ELSE IF parameter_id = EN
       THEN [st EXCEPT !.read_ptr = read_ptr + 2,
                       !.self.enabled = (int_from_bytes(field(2)) = 1)]
       ELSE IF parameter_id = CO
       THEN [st EXCEPT !.read_ptr = read_ptr + 4,
                       !.self.core = PyInteger(int_from_bytes_unsigned(field(4)))]
       ELSE IF parameter_id = XX
       THEN [st EXCEPT !.pc = "return", !.read_ptr = read_ptr]
       ELSE [st EXCEPT !.pc = "raise", !.exc = "ValueError"]

\* Breakpoint(conn, **obj)
BreakpointNew ==
    /\ codec = "Breakpoint"
    /\ dec = NoCall
    /\ LET b == breakpoint_init(obj)
       IN IF b.raised # ""
          THEN /\ dec' = [NoCall EXCEPT !.pc = "raise", !.exc = b.raised]
               /\ UNCHANGED obj
          ELSE /\ dec' = [NoCall EXCEPT !.pc = "new"]
               /\ obj' = b.self
    /\ UNCHANGED <<codec, record>>
    /\ UNCHANGED <<linkVars, syncVars, bundleVars, execVars, memVars, regVars, methodVars>>

BreakpointSerialize ==
    /\ codec = "Breakpoint"
    /\ codec_serialize("new", breakpoint_serialize(obj))
    /\ UNCHANGED <<linkVars, syncVars, bundleVars, execVars, memVars, regVars, methodVars>>

\* Breakpoint(conn).deserialize(record), up to the loop
BreakpointBegin ==
    /\ codec_step("Breakpoint", "call", breakpoint_begin(NewBreakpoint))
    /\ UNCHANGED <<linkVars, syncVars, bundleVars, execVars, memVars, regVars, methodVars>>

BreakpointIter ==
    /\ codec_step("Breakpoint", "loop", breakpoint_iter(record, dec))
    /\ UNCHANGED <<linkVars, syncVars, bundleVars, execVars, memVars, regVars, methodVars>>

\* D:0x1000 and an address without access code
BreakpointAddresses ==
    {Address(<<68>>, PyInt(FALSE, <<0, 16>>)), Address(None, PyInt(FALSE, <<0, 16>>))}

\* sizes 1, 4 and 2^64 - 1
BreakpointSizes ==
    {PyInteger(PyInt(FALSE, <<1>>)), PyInteger(PyInt(FALSE, <<4>>)),
     PyInteger(PyInt(FALSE, <<255, 255, 255, 255, 255, 255, 255, 255>>))}

\* no core, cores 0 and 1
BreakpointCores == {PyNone, PyInteger(PyInt(FALSE, <<>>)), PyInteger(PyInt(FALSE, <<1>>))}

\* Action.NONE, Action.STOP, Action.WATCH, Action.TRACETRIGGER and what
\* Action.STOP | Action.SPOT and Action.STOP | Action.WATCH evaluate to
BreakpointActions ==
    {Member("Action", 0), Member("Action", 1), Member("Action", 33554432),
     Member("Action", 1073741824), Member("int", 3), Member("int", 33554433)}

\* the keyword arguments of the Breakpoints constructed
BreakpointArguments ==
    {Breakpoint(action, address, core, size, Member("Type", type_),
                Member("Impl", impl), enabled) :
         action \in BreakpointActions, address \in BreakpointAddresses,
         core \in BreakpointCores, size \in BreakpointSizes,
         type_ \in {0, 1, 6}, impl \in {0, 2}, enabled \in BOOLEAN}

InitBreakpoint ==
    /\ codec = "Breakpoint"
    /\ obj \in BreakpointArguments
    /\ CodecInit

NextBreakpoint ==
    \/ BreakpointNew
    \/ BreakpointSerialize
    \/ BreakpointBegin
    \/ BreakpointIter

SpecBreakpoint == InitBreakpoint /\ [][NextBreakpoint]_vars

-----------------------------------------------------------------------------
(* _serialize and _deserialize of _register.py applied to a Register *)

\* Register(conn)
NewRegister == Register(PyNone, PyNone, PyNone, PyNone, PyNone)

RegisterSerialize ==
    /\ codec = "Register"
    /\ codec_serialize("idle", register_serialize(obj))
    /\ UNCHANGED <<linkVars, syncVars, bundleVars, execVars, memVars, regVars, methodVars>>

\* Register(conn)._deserialize(record): read_ptr is the counter it returns
RegisterDeserialize ==
    /\ LET d == register_deserialize(NewRegister, record)
       IN codec_step("Register", "call",
                     [pc |-> IF d.raised # "" THEN "raise" ELSE "return",
                      exc |-> d.raised, read_ptr |-> d.counter, self |-> d.reg])
    /\ UNCHANGED <<linkVars, syncVars, bundleVars, execVars, memVars, regVars, methodVars>>

\* integer values: 0, 5, 2^63 - 1, 2^63, 2^64 - 1, -1, -5 and -2^63
RegisterValues ==
    {PyInteger(PyInt(FALSE, <<>>)), PyInteger(PyInt(FALSE, <<5>>)),
     PyInteger(PyInt(FALSE, <<255, 255, 255, 255, 255, 255, 255, 127>>)),
     PyInteger(PyInt(FALSE, <<0, 0, 0, 0, 0, 0, 0, 128>>)),
     PyInteger(PyInt(FALSE, <<255, 255, 255, 255, 255, 255, 255, 255>>)),
     PyInteger(PyInt(TRUE, <<1>>)), PyInteger(PyInt(TRUE, <<5>>)),
     PyInteger(PyInt(TRUE, <<0, 0, 0, 0, 0, 0, 0, 128>>))}

\* no core, cores 0, 1 and 255
RegisterCores ==
    {PyNone, PyInteger(PyInt(FALSE, <<>>)), PyInteger(PyInt(FALSE, <<1>>)),
     PyInteger(PyInt(FALSE, <<255>>))}

\* the Registers serialized: named "R0" or "SP1", of every unit, with an
\* integer value or with the floating point value 1.5 or -2.0
Registers ==
    {register_init(core, PyStr(name), value, PyStr(unit), PyNone).reg :
         core \in RegisterCores, name \in {StrR0, <<83, 80, 49>>},
         value \in RegisterValues, unit \in UnitNames}
      \cup {register_init(core, PyStr(name), PyNone, PyStr(unit), PyFloat(fvalue)).reg :
                core \in RegisterCores, name \in {StrR0, <<83, 80, 49>>},
                fvalue \in {Float1_5, FloatMinus2}, unit \in UnitNames}

InitRegisterCodec ==
    /\ codec = "Register"
    /\ obj \in Registers
    /\ CodecInit

NextRegisterCodec ==
    \/ RegisterSerialize
    \/ RegisterDeserialize

SpecRegisterCodec == InitRegisterCodec /\ [][NextRegisterCodec]_vars

-----------------------------------------------------------------------------
(* _symbol.py *)

NE == <<78, 69>>
PT == <<80, 84>>

\* the fields of a Symbol
Symbol(address, name, path, size) ==
    [address |-> address, name |-> name, path |-> path, size |-> size]

\* Symbol.serialize: [raised, bytes]
symbol_serialize(self) ==
    LET addr_params == address_serialize(self.address, NoWidth)
        len0a == (Len(self.name.mag) + 2) - ((Len(self.name.mag) + 2) % 2)
    IN IF IsAddress(self.address) /\ addr_params.raised # "" THEN addr_params
       ELSE IF self.name # PyNone /\ self.name.type # "str"
       THEN [raised |-> "TypeError", bytes |-> <<>>]
       ELSE [raised |-> "",
             bytes |-> (IF IsAddress(self.address) THEN AD \o addr_params.bytes ELSE <<>>)
                 \o (IF self.name # PyNone
                     THEN NM \o to_bytes(len0a, 2) \o pack_s(encode(self.name.mag), len0a)
                     ELSE <<>>)
                 \o XX]

\* self.deserialize up to its loop: the fields reset
symbol_begin(recv_buffer) ==
    [pc |-> IF recv_buffer = None THEN "raise" ELSE "loop",
     exc |-> IF recv_buffer = None THEN "ValueError" ELSE "",
     read_ptr |-> 0,
     self |-> Symbol(NoAddress, PyNone, PyNone, PyInteger(PyInt(FALSE, <<>>)))]

\* Symbol.deserialize: the test of the while loop and one run of its body, or
\* the return that follows the loop
symbol_iter(recv_buffer, st) ==
    LET read_ptr == st.read_ptr + 2
        parameter_id == Slice(recv_buffer, st.read_ptr, st.read_ptr + 2)
        address == address_deserialize(SliceFrom(recv_buffer, read_ptr))
        field_len == int_from_bytes(Slice(recv_buffer, read_ptr, read_ptr + 2))
        next_read_ptr == read_ptr + 2 + field_len
        field == decode(Slice(recv_buffer, read_ptr + 2, next_read_ptr))
        text == rstrip(field.str, 0)
        raise(exc, ptr) == [st EXCEPT !.pc = "raise", !.exc = exc, !.read_ptr = ptr]
    IN IF ~(st.read_ptr < Len(recv_buffer)) THEN [st EXCEPT !.pc = "return"]
       ELSE IF parameter_id = AD
       THEN IF address.pc = "raise" THEN raise(address.exc, read_ptr)
            ELSE [st EXCEPT !.read_ptr = read_ptr + address.read_ptr,
                            !.self.address = Address(address.access, address.value)]
       ELSE IF parameter_id = NM
       THEN IF field.raised # "" THEN raise(field.raised, read_ptr + 2)
            ELSE [st EXCEPT !.read_ptr = next_read_ptr, !.self.name = PyStr(text)]
       ELSE IF parameter_id = PT
       THEN IF field.raised # "" THEN raise(field.raised, read_ptr + 2)
            ELSE [st EXCEPT !.read_ptr = next_read_ptr, !.self.path = PyStr(text)]
       ELSE IF parameter_id = SZ
       THEN [st EXCEPT !.read_ptr = read_ptr + 8,
                       !.self.size = PyInteger(int_from_bytes_unsigned(
                                         Slice(recv_buffer, read_ptr, read_ptr + 8)))]
       ELSE IF parameter_id = NE
       THEN IF field.raised # "" THEN raise(field.raised, read_ptr + 2)
            ELSE IF st.self.name = PyNone THEN raise("AssertionError", read_ptr + 2)
            ELSE [st EXCEPT !.read_ptr = next_read_ptr,
                            !.self.name = PyStr(st.self.name.mag \o text)]
       ELSE IF parameter_id = XX
       THEN [st EXCEPT !.pc = "return", !.read_ptr = read_ptr]
       ELSE raise("ValueError", read_ptr)

-----------------------------------------------------------------------------
(* Library.t32_exp_deserialize_response *)

EC == <<69, 67>>
EM == <<69, 77>>
PL == <<80, 76>>

\* t32_exp_deserialize_response up to its loop; status 0 stands for "Ok",
\* err_code, err_msg and payload are None
exp_begin(rbuffer) ==
    LET st == [pc |-> "loop", exc |-> "", read_ptr |-> 6, status |-> 0,
               err_code |-> PyNone, err_msg |-> PyNone, payload |-> None]
    IN IF rbuffer = <<>> THEN [st EXCEPT !.pc = "raise", !.exc = "IndexError", !.read_ptr = 0]
       ELSE [st EXCEPT !.status = rbuffer[1]]

\* t32_exp_deserialize_response: the test of the while loop and one run of
\* its body, or the return that follows the loop
exp_iter(rbuffer, st) ==
    LET msg_len == int_from_bytes(Slice(rbuffer, 2, 4))
        read_ptr == st.read_ptr + 4
        identifier == Slice(rbuffer, st.read_ptr, st.read_ptr + 2)
        len == int_from_bytes(Slice(rbuffer, st.read_ptr + 2, st.read_ptr + 4))
        value == Slice(rbuffer, read_ptr, read_ptr + len)
        err_msg == decode(value)
    IN IF ~(st.read_ptr < msg_len) THEN [st EXCEPT !.pc = "return"]
       ELSE IF identifier = EM
       THEN IF err_msg.raised # ""
            THEN [st EXCEPT !.pc = "raise", !.exc = err_msg.raised, !.read_ptr = read_ptr]
            ELSE [st EXCEPT !.read_ptr = read_ptr + len, !.err_msg = PyStr(err_msg.str)]
       ELSE IF identifier = EC
       THEN [st EXCEPT !.read_ptr = read_ptr + len,
                       !.err_code = PyInteger(int_from_bytes_unsigned(value))]
       ELSE IF identifier = PL
       THEN [st EXCEPT !.read_ptr = read_ptr + len, !.payload = value]
       ELSE [st EXCEPT !.pc = "raise", !.exc = "ValueError"]

-----------------------------------------------------------------------------
(* The decode loops applied to records and to other buffers *)

SymbolSerialize ==
    /\ codec = "Symbol"
    /\ codec_serialize("idle", symbol_serialize(obj))
    /\ UNCHANGED <<linkVars, syncVars, bundleVars, execVars, memVars, regVars, methodVars>>

SymbolBegin ==
    /\ codec_step("Symbol", "call", symbol_begin(record))
    /\ UNCHANGED <<linkVars, syncVars, bundleVars, execVars, memVars, regVars, methodVars>>

SymbolIter ==
    /\ codec_step("Symbol", "loop", symbol_iter(record, dec))
    /\ UNCHANGED <<linkVars, syncVars, bundleVars, execVars, memVars, regVars, methodVars>>

ExpBegin ==
    /\ codec_step("exp", "call", exp_begin(record))
    /\ UNCHANGED <<linkVars, syncVars, bundleVars, execVars, memVars, regVars, methodVars>>

ExpIter ==
    /\ codec_step("exp", "loop", exp_iter(record, dec))
    /\ UNCHANGED <<linkVars, syncVars, bundleVars, execVars, memVars, regVars, methodVars>>

\* the Symbols serialized: with D:0x1000, an address without access code or
\* none, named "f", "main" or not at all
Symbols ==
    {Symbol(address, name, PyNone, PyNone) :
         address \in BreakpointAddresses \cup {NoAddress},
         name \in {PyNone, PyStr(<<102>>), PyStr(<<109, 97, 105, 110>>)}}

InitSymbol ==
    /\ codec = "Symbol"
    /\ obj \in Symbols
    /\ CodecInit

\* what a buffer begins with for Address.deserialize: an A64 and an A32
\* address, an address type that is neither, a cut address, nothing
AddressHeads ==
    {<<3, 0, 0, 16, 0, 0, 0, 0, 0, 0>>, <<2, 0, 0, 16, 0, 0>>, <<1, 0, 0, 16, 0, 0>>,
     <<3, 0, 0, 16>>, <<>>}

\* fields after it: access codes of length 0, 2 ("D"), 2 (not UTF-8) and of
\* a length past the end, the other parameters, the end marker, an unknown
\* id, half an id, nothing
AddressFields ==
    {AC \o <<0, 0>>, AC \o <<2, 0, 68, 0>>, AC \o <<2, 0, 255, 0>>, AC \o <<9, 0, 68>>,
     WI \o <<1, 0>>, CO \o <<0, 0>>, SI \o <<0, 0, 0, 0>>, IM \o <<0, 0, 0, 0>>,
     AT \o <<0, 0, 0, 0>>, MU \o <<1, 0>>, TU \o <<1, 0>>, XX, <<90, 90>>, <<88>>, <<>>}

\* an Address record with access code, one without, and a cut one
AddressRecords ==
    {<<3, 0, 0, 16, 0, 0, 0, 0, 0, 0>> \o AC \o <<2, 0, 68, 0>> \o XX,
     <<3, 0, 0, 16, 0, 0, 0, 0, 0, 0>> \o XX, <<3, 0>>}

\* fields for Breakpoint.deserialize
BreakpointFields ==
    {AD \o a : a \in AddressRecords}
      \cup {SZ \o <<4, 0, 0, 0, 0, 0, 0, 0>>, SZ \o <<4, 0, 0>>, TY \o <<1, 0, 0, 0>>,
            TY \o <<3, 0, 0, 0>>, DM \o <<2, 0, 0, 0>>, IM \o <<0, 0, 0, 0>>,
            IM \o <<0, 0, 0, 255>>, jj, hh \o <<0, 0>>, CA \o <<1, 0, 0, 0>>,
            CA \o <<3, 0, 0, 0>>, EN \o <<1, 0>>, EN \o <<0, 0>>, CO \o <<1, 0, 0, 0>>,
            XX, <<90, 90>>, <<88>>, <<>>}

\* fields for Symbol.deserialize
SymbolFields ==
    {AD \o a : a \in AddressRecords}
      \cup {NM \o <<2, 0, 102, 0>>, NM \o <<0, 0>>, NM \o <<2, 0, 255, 0>>,
            NM \o <<9, 0, 102>>, PT \o <<2, 0, 112, 0>>, SZ \o <<4, 0, 0, 0, 0, 0, 0, 0>>,
            NE \o <<2, 0, 103, 0>>, NE \o <<1, 0, 255>>, XX, <<90, 90>>, <<88>>, <<>>}

\* what a response begins with for t32_exp_deserialize_response: the status
\* and a message length of 0, 6, 11, 14 or 600
ExpHeads ==
    {<<s, 0, l, h, 0, 0>> : s \in {0, 16}, l \in {0, 6, 11, 14}, h \in {0}}
      \cup {<<0, 0, 88, 2, 0, 0>>}

\* fields of such a response
ExpFields ==
    {EM \o <<1, 0, 101>>, EM \o <<1, 0, 255>>, EC \o <<2, 0, 5, 0>>, PL \o <<2, 0, 97, 98>>,
     PL \o <<0, 0>>, PL \o <<9, 0, 97>>, <<90, 90>>, <<80>>, <<>>}

\* the buffers a decoder is called with, records of its serializer apart
DecodeBuffers(class) ==
    IF class = "Address"
    THEN {h \o f1 \o f2 : h \in AddressHeads, f1 \in AddressFields, f2 \in AddressFields}
    ELSE IF class = "Breakpoint"
    THEN {f1 \o f2 : f1 \in BreakpointFields, f2 \in BreakpointFields}
    ELSE IF class = "Symbol"
    THEN {f1 \o f2 : f1 \in SymbolFields, f2 \in SymbolFields}
    ELSE {h \o f1 \o f2 : h \in ExpHeads, f1 \in ExpFields, f2 \in ExpFields}
             \cup {<<>>, <<0>>}

\* a decoder called with a buffer no object of the model was serialized to
InitBuffer ==
    /\ codec \in {"Address", "Breakpoint", "Symbol", "exp"}
    /\ obj = PyNone
    /\ record \in DecodeBuffers(codec)
    /\ dec = Called
    /\ LinkInit
    /\ SyncIdle
    /\ BundleIdle
    /\ ExecIdle
    /\ MemIdle
    /\ RegIdle
    /\ MethodIdle

InitDecode ==
    \/ InitAddress
    \/ InitBreakpoint
    \/ InitSymbol
    \/ InitBuffer

NextDecode ==
    \/ AddressSerialize
    \/ AddressBegin
    \/ AddressIter
    \/ BreakpointNew
    \/ BreakpointSerialize
    \/ BreakpointBegin
    \/ BreakpointIter
    \/ SymbolSerialize
    \/ SymbolBegin
    \/ SymbolIter
    \/ ExpBegin
    \/ ExpIter

SpecDecode == InitDecode /\ [][NextDecode]_vars

-----------------------------------------------------------------------------
(* The decoders applied to buffers that hold ids they do not know *)

\* RegisterService.__deserialize_registers(record): registers is the list it
\* returns
RegistersDeserialize ==
    /\ LET d == deserialize_registers(record, 0, <<>>)
       IN codec_step("registers", "call",
                     [pc |-> IF d.raised # "" THEN "raise" ELSE "return",
                      exc |-> d.raised, read_ptr |-> 0, registers |-> d.registers])
    /\ UNCHANGED <<linkVars, syncVars, bundleVars, execVars, memVars, regVars, methodVars>>

\* fields for Register._deserialize: the record of R0 with the value 5, its
\* parts, an unknown id, half an id, nothing
RegisterFields ==
    {NM \o <<2, 0>> \o StrR0 \o TY \o <<4, 0>> \o VA \o <<5, 0, 0, 0, 0, 0, 0, 0>> \o XX \o XX,
     NM \o <<2, 0>> \o StrR0, TY \o <<4, 0>>, VA \o <<5, 0, 0, 0, 0, 0, 0, 0>>,
     CO \o <<1, 0>>, XX \o XX, <<90, 90>>, <<90, 90, 0, 0>>, <<88>>, <<>>}

RegisterBuffers == {f1 \o f2 \o f3 : f1, f2, f3 \in RegisterFields}

\* Register(conn)._deserialize or __deserialize_registers called with a buffer
InitRegisterBuffer ==
    /\ codec \in {"Register", "registers"}
    /\ obj = PyNone
    /\ record \in RegisterBuffers
    /\ dec = Called
    /\ LinkInit
    /\ SyncIdle
    /\ BundleIdle
    /\ ExecIdle
    /\ MemIdle
    /\ RegIdle
    /\ MethodIdle

InitTags ==
    \/ InitBuffer
    \/ InitRegisterBuffer

NextTags ==
    \/ AddressBegin
    \/ AddressIter
    \/ BreakpointBegin
    \/ BreakpointIter
    \/ SymbolBegin
    \/ SymbolIter
    \/ ExpBegin
    \/ ExpIter
    \/ RegisterDeserialize
    \/ RegistersDeserialize

SpecTags == InitTags /\ [][NextTags]_vars

-----------------------------------------------------------------------------
(* Symbol.deserialize applied to the fields of a symbol in every order *)

\* the strs "ma", "in" and "p"
StrMa == <<109, 97>>
StrIn == <<105, 110>>
StrP == <<112>>

\* the ids of the optional fields
SymbolIds == {AD, NM, NE, PT, SZ}

\* the field with the id of a record that holds the address, the name "ma",
\* the name extension "in", the path "p" and the size 4
symbol_field(id, address) ==
    IF id = AD THEN AD \o address_serialize(address, NoWidth).bytes
    ELSE IF id = NM THEN NM \o to_bytes(4, 2) \o pack_s(encode(StrMa), 4)
    ELSE IF id = NE THEN NE \o to_bytes(2, 2) \o encode(StrIn)
    ELSE IF id = PT THEN PT \o to_bytes(2, 2) \o pack_s(encode(StrP), 2)
    ELSE SZ \o to_bytes(4, 8)

RECURSIVE symbol_fields(_, _)
\* the fields with the ids, in their order
symbol_fields(ids, address) ==
    IF ids = <<>> THEN <<>>
    ELSE symbol_field(Head(ids), address) \o symbol_fields(Tail(ids), address)

\* the ids of a record in an order: each at most once, a name extension
\* only with a name
SymbolOrders ==
    {ids \in UNION {[1..k -> SymbolIds] : k \in 0..Cardinality(SymbolIds)} :
        /\ \A i, j \in 1..Len(ids) : ids[i] = ids[j] => i = j
        /\ (\E i \in 1..Len(ids) : ids[i] = NE) => (\E i \in 1..Len(ids) : ids[i] = NM)}

\* the symbol the fields with the ids describe
symbol_of(ids, address) ==
    LET has(id) == \E i \in 1..Len(ids) : ids[i] = id
    IN Symbol(IF has(AD) THEN address ELSE NoAddress,
              IF has(NM) THEN PyStr(StrMa \o (IF has(NE) THEN StrIn ELSE <<>>)) ELSE PyNone,
              IF has(PT) THEN PyStr(StrP) ELSE PyNone,
              PyInteger(PyInt(FALSE, IF has(SZ) THEN <<4>> ELSE <<>>)))

\* Symbol(conn).deserialize called with the fields of obj in some order and
\* the end marker
InitSymbolFields ==
    /\ codec = "Symbol"
    /\ \E ids \in SymbolOrders, address \in BreakpointAddresses :
          /\ obj = symbol_of(ids, address)
          /\ record = symbol_fields(ids, address) \o XX
    /\ dec = Called
    /\ LinkInit
    /\ SyncIdle
    /\ BundleIdle
    /\ ExecIdle
    /\ MemIdle
    /\ RegIdle
    /\ MethodIdle

NextSymbolFields ==
    \/ SymbolBegin
    \/ SymbolIter

SpecSymbolFields == InitSymbolFields /\ [][NextSymbolFields]_vars

-----------------------------------------------------------------------------
(* Breakpoint.enable, Breakpoint.disable, Library.t32_writebreakpointobj *)

RAPI_DSCMD_BREAKPOINT_OBJ_WRITE == 69

RECURSIVE breakpoint_loop(_, _)
\* the while loop of Breakpoint.deserialize run to its end
breakpoint_loop(recv_buffer, st) ==
    IF st.pc # "loop" THEN st
    ELSE breakpoint_loop(recv_buffer, breakpoint_iter(recv_buffer, st))

\* a payload that says write whether or not delete is set
writebreakpointobj_payload_never_deletes(bp, delete) ==
    LET bp_stream == breakpoint_serialize(bp)
    IN IF bp_stream.raised # ""
       THEN [raised |-> "BreakpointParameterError", bytes |-> <<>>]
       ELSE [raised |-> "",
             bytes |-> <<1, 0>> \o hh \o to_bytes(Len(bp_stream.bytes), 2)
                           \o bp_stream.bytes]

\* the payload of t32_writebreakpointobj(bp, delete): [raised, bytes]
writebreakpointobj_payload(bp, delete) ==
    LET bp_stream == breakpoint_serialize(bp)
    IN IF bp_stream.raised # ""
       THEN [raised |-> "BreakpointParameterError", bytes |-> <<>>]
       ELSE [raised |-> "",
             bytes |-> (IF delete THEN <<0, 0>> ELSE <<1, 0>>) \o hh
                           \o to_bytes(Len(bp_stream.bytes), 2) \o bp_stream.bytes]

\* the except clauses of t32_writebreakpointobj
writebreakpointobj_raises(res) ==
    IF res.exc \in {"T32_ERR_FN1", "T32_ERR_FN2"} THEN Raise("BreakpointWriteError")
    ELSE IF res.exc = "T32_ERR_FN3" THEN Raise("BreakpointAddressError")
    ELSE IF res.exc = "T32_ERR_FN4" THEN Raise("BreakpointActionError")
    ELSE res

\* t32_writebreakpointobj(bp, delete) up to the entry of Link.receive, inside
\* a method of the breakpoint that goes on at next once the call has ended;
\* method_requests gets what the call hands to Link.transmit
t32_writebreakpointobj(bp, delete, next, tx_ok) ==
    LET payload == writebreakpointobj_payload(bp, delete)
    IN IF payload.raised # ""
       THEN /\ method' = [next EXCEPT !.pc = "done"]
            /\ method_result' = Raise(payload.raised)
            /\ UNCHANGED <<linkVars, method_requests>>
       ELSE /\ generic_api_call(RAPI_CMD_DEVICE_SPECIFIC, RAPI_DSCMD_BREAKPOINT_OBJ_WRITE,
                                FALSE, payload.bytes, 3 + Len(payload.bytes), FALSE, tx_ok)
            /\ method' = next
            /\ method_requests' = IF send_data' # <<>> THEN Append(method_requests, send_data')
                                  ELSE method_requests
            /\ UNCHANGED method_result

\* Breakpoint.enable (enabled) and Breakpoint.disable (not enabled) up to the
\* entry of Link.receive for the delete request
breakpoint_toggle(enabled, tx_ok) ==
    /\ codec = "Breakpoint"
    /\ method = NoMethod
    /\ pc = "idle"
    /\ t32_writebreakpointobj(obj, TRUE,
                              [name |-> IF enabled THEN "enable" ELSE "disable",
                               pc |-> "delete", enabled |-> enabled, self |-> obj],
                              tx_ok)
    /\ UNCHANGED codecVars

\* Breakpoint.enable and Breakpoint.disable once a call of
\* t32_writebreakpointobj has ended: after the delete the flag is assigned
\* and the breakpoint written, after the write the response is deserialized
breakpoint_toggle_resume(tx_ok) ==
    /\ method.pc \in {"delete", "write"}
    /\ pc = "idle"
    /\ IF result.kind = "raise"
       THEN /\ method' = [method EXCEPT !.pc = "done"]
            /\ method_result' = writebreakpointobj_raises(result)
            /\ UNCHANGED <<linkVars, codecVars, method_requests>>
       ELSE IF method.pc = "delete"
       THEN /\ obj' = [obj EXCEPT !.enabled = method.enabled]
            /\ t32_writebreakpointobj(obj', FALSE, [method EXCEPT !.pc = "write"], tx_ok)
            /\ UNCHANGED <<codec, record, dec>>
       ELSE /\ record' = result.value
            /\ dec' = breakpoint_loop(record', breakpoint_begin(obj))
            /\ obj' = dec'.self
            /\ method' = [method EXCEPT !.pc = "done"]
            /\ method_result' = IF dec'.pc = "raise" THEN Raise(dec'.exc) ELSE Return(<<>>)
            /\ UNCHANGED <<linkVars, codec, method_requests>>

BreakpointToggle ==
    /\ \E enabled \in BOOLEAN, tx_ok \in BOOLEAN : breakpoint_toggle(enabled, tx_ok)
    /\ UNCHANGED <<syncVars, bundleVars, execVars, memVars, regVars>>

BreakpointToggleResume ==
    /\ \E tx_ok \in BOOLEAN : breakpoint_toggle_resume(tx_ok)
    /\ UNCHANGED <<syncVars, bundleVars, execVars, memVars, regVars>>

\* what one recvfrom returns while a breakpoint method waits: the response
\* to the request, with T32_ERR_FN1, T32_ERR_STD_BUSERROR or ok, without
\* data or with the record of a breakpoint
BreakpointReads(mid) ==
    {PeerFrame(RCL_RESP, <<s, get_message_id(mid)>>) : s \in {0, 16, 90}}
        \cup {PeerFrame(RCL_RESP, <<0, get_message_id(mid)>> \o AD
                            \o address_serialize(Address(<<68>>, PyInt(FALSE, <<0, 16>>)),
                                                 NoWidth).bytes
                            \o EN \o <<e, 0>> \o XX) : e \in {0, 1}}

BreakpointPoll ==
    /\ \E message_received \in BreakpointReads(message_id) : PollResponse(message_received)
    /\ UNCHANGED <<syncVars, bundleVars, execVars, objVars>>

\* the breakpoints toggled: at D:0x1000 or at an address without access
\* code, of size 1, enabled or not, and one without address
ToggledBreakpoints ==
    {Breakpoint(Member("Action", 1), address, PyNone, PyInteger(PyInt(FALSE, <<1>>)),
                Member("Type", 1), Member("Impl", 0), enabled) :
         address \in BreakpointAddresses \cup {NoAddress}, enabled \in BOOLEAN}

\* a constructed Debugger that has made 0 or 253 calls, and a Breakpoint
InitToggle ==
    /\ reads = NoReads
    /\ dbg = "ready"
    /\ socket = "connected"
    /\ socket_content = <<>>
    /\ response_queue = <<>>
    /\ notify_queue = <<>>
    /\ message_id \in {0, 253}
    /\ pc = "idle"
    /\ args = NoArgs
    /\ recv_message_id = 0
    /\ send_data = <<>>
    /\ wire = <<>>
    /\ result = NoResult
    /\ ops = <<>>
    /\ SyncIdle
    /\ BundleIdle
    /\ ExecIdle
    /\ MemIdle
    /\ RegIdle
    /\ MethodIdle
    /\ codec = "Breakpoint"
    /\ obj \in ToggledBreakpoints
    /\ record = None
    /\ dec = NoCall

NextToggle ==
    \/ BreakpointToggle
    \/ BreakpointToggleResume
    \/ Receive
    \/ BreakpointPoll
    \/ Timeout

SpecToggle == InitToggle /\ [][NextToggle]_vars

-----------------------------------------------------------------------------
(* Library.t32_checkstatenotify, receive_notify_message *)

T32_API_NOTIFICATION == 6
T32_E_BREAK == 0
T32_E_EDIT == 1
T32_E_BREAKPOINTCONFIG == 2
T32_E_ONEVENT == 3
T32_E_RTSTRIGGER == 4
T32_E_ERROR == 5

\* receive_notify_message of CommunicationTcp and CommunicationUdp on the
\* notification queue nq when recvfrom would return the datagrams or stream
\* pieces of pending: [raised, msg_data, notify_queue, pending]
receive_notify_message(link, nq, pending) ==
    IF nq # <<>>
    THEN [raised |-> "", msg_data |-> Head(nq), notify_queue |-> Tail(nq),
          pending |-> pending]
    ELSE IF pending = <<>>
    THEN [raised |-> "", msg_data |-> None, notify_queue |-> nq, pending |-> pending]
    ELSE LET packet_received == Head(pending)
         IN IF link = "CommunicationUdp"
            THEN IF packet_received = <<>>
                 THEN [raised |-> "", msg_data |-> None, notify_queue |-> nq,
                       pending |-> Tail(pending)]
                 ELSE [raised |-> IF packet_received[1] = T32_API_NOTIFICATION THEN ""
                                  ELSE "ApiHeaderError",
                       msg_data |-> packet_received, notify_queue |-> nq,
                       pending |-> Tail(pending)]
            ELSE LET msg_len == int_from_bytes(Slice(packet_received, 0, 4))
                     msg_type == int_from_bytes(Slice(packet_received, 4, 8))
                 IN [raised |-> IF msg_type = RCL_NOTIFY THEN "" ELSE "ApiHeaderError",
                     msg_data |-> Slice(packet_received, 8, 8 + msg_len),
                     notify_queue |-> nq, pending |-> Tail(pending)]

\* the body of the while loop of t32_checkstatenotify before the next
\* receive_notify_message, for msg_data, the local offset bound or not and the
\* Library self: [raised, offset_bound, calls], calls the functions called
checkstatenotify_dispatch(self, msg_data, offset_bound) ==
    IF Len(msg_data) < 2
    THEN [raised |-> "IndexError", offset_bound |-> offset_bound, calls |-> <<>>]
    ELSE
    LET event_type == msg_data[2]
        registered == event_type \in self._notification_callback
        bound == offset_bound \/ registered
        offset == 16
        int4(at) == int_from_bytes_unsigned(Slice(msg_data, at, at + 4))
        int8(at) == int_from_bytes_unsigned(Slice(msg_data, at, at + 8))
        text == decode(SliceFrom(msg_data, offset + 4))
        callback(arguments) == <<[callback_func |-> event_type, args |-> arguments]>>
        first ==
            IF ~registered THEN [raised |-> "", calls |-> <<>>]
            ELSE IF event_type = T32_E_BREAK
            THEN [raised |-> "", calls |-> callback(<<int8(offset), int8(offset + 8)>>)]
            ELSE IF event_type \in {T32_E_EDIT, T32_E_ERROR}
            THEN IF text.raised # "" THEN [raised |-> text.raised, calls |-> <<>>]
                 ELSE [raised |-> "", calls |-> callback(<<int4(offset), text.str>>)]
            ELSE IF event_type = T32_E_BREAKPOINTCONFIG
            THEN [raised |-> "", calls |-> callback(<<>>)]
            ELSE IF event_type = T32_E_RTSTRIGGER
            THEN [raised |-> "",
                  calls |-> callback(<<int4(offset), int4(offset + 8), int4(offset + 16)>>)]
            ELSE [raised |-> "", calls |-> <<>>]
        event_name == decode(SliceFrom(msg_data, offset))
        second ==
            IF first.raised # "" \/ event_type # T32_E_ONEVENT THEN first
            ELSE IF ~bound THEN [raised |-> "UnboundLocalError", calls |-> first.calls]
            ELSE IF event_name.raised # ""
            THEN [raised |-> event_name.raised, calls |-> first.calls]
            ELSE IF event_name.str \in self._eventlist
            THEN [raised |-> "",
                  calls |-> first.calls \o <<[event_function |-> event_name.str]>>]
            ELSE first
    IN [raised |-> IF second.raised # "" THEN "ApiNotificationCheckError" ELSE "",
        offset_bound |-> bound, calls |-> second.calls]

\* t32_checkstatenotify up to its first receive_notify_message; arrived keeps
\* what was queued and what the socket held when it was called
t32_checkstatenotify ==
    /\ codec = "Library"
    /\ method = NoMethod
    /\ method' = [name |-> "t32_checkstatenotify", pc |-> "receive", msg_data |-> None,
                  offset_bound |-> FALSE, calls |-> <<>>,
                  arrived |-> [notify_queue |-> notify_queue, pending |-> reads.pending]]
    /\ UNCHANGED <<linkVars, codecVars, method_result, method_requests>>
    /\ UNCHANGED <<syncVars, bundleVars, execVars, memVars, regVars>>

\* msg_data = self._link.receive_notify_message() and the loop test
checkstatenotify_receive ==
    /\ method.name = "t32_checkstatenotify"
    /\ method.pc = "receive"
    /\ LET r == receive_notify_message(obj._link, notify_queue, reads.pending)
       IN /\ notify_queue' = r.notify_queue
          /\ reads' = [pending |-> r.pending,
                       done |-> reads.done \o SubSeq(reads.pending, 1,
                                                      Len(reads.pending) - Len(r.pending))]
          /\ IF r.raised # ""
             THEN /\ method' = [method EXCEPT !.pc = "done"]
                  /\ method_result' = Raise(r.raised)
             ELSE IF r.msg_data = None
             THEN /\ method' = [method EXCEPT !.pc = "done"]
                  /\ method_result' = Return(<<>>)
             ELSE /\ method' = [method EXCEPT !.pc = "loop", !.msg_data = r.msg_data]
                  /\ UNCHANGED method_result
    /\ UNCHANGED <<socket, socket_content, response_queue, message_id, pc, args,
                   recv_message_id, send_data, wire, result, ops, dbg>>
    /\ UNCHANGED <<codecVars, method_requests>>
    /\ UNCHANGED <<syncVars, bundleVars, execVars, memVars, regVars>>

\* one pass of the while loop of t32_checkstatenotify
checkstatenotify_loop ==
    /\ method.name = "t32_checkstatenotify"
    /\ method.pc = "loop"
    /\ LET d == checkstatenotify_dispatch(obj, method.msg_data, method.offset_bound)
       IN /\ method' = [method EXCEPT !.pc = IF d.raised # "" THEN "done" ELSE "receive",
                                      !.offset_bound = d.offset_bound,
                                      !.calls = @ \o d.calls]
          /\ method_result' = IF d.raised # "" THEN Raise(d.raised) ELSE method_result
    /\ UNCHANGED <<linkVars, codecVars, method_requests>>
    /\ UNCHANGED <<syncVars, bundleVars, execVars, memVars, regVars>>

\* the most reads or datagrams that wait on the socket when
\* t32_checkstatenotify is called
MaxArriving == 2

\* a notification message: event type at index 1, data from index 16
Notification(event_type, data) == <<0, event_type>> \o Zeros(14) \o data

\* the notifications of the peer: a break at 0x1000, the event "A", and one
\* of a type without meaning
Notifications ==
    {Notification(T32_E_BREAK, to_bytes(4096, 8) \o to_bytes(1, 8)),
     Notification(T32_E_ONEVENT, <<65>>),
     Notification(7, <<>>)}

\* what one recvfrom returns: over UDP the datagram of one notification, over
\* TCP the frame of one notification or two frames back to back
NotifyReads(link) ==
    IF link = "CommunicationUdp"
    THEN {<<T32_API_NOTIFICATION, 0, 1, 0, 0, 0, 0>> \o n : n \in Notifications}
    ELSE {PeerFrame(RCL_NOTIFY, n) : n \in Notifications}
             \cup {PeerFrame(RCL_NOTIFY, Notification(T32_E_BREAK, Zeros(16)))
                       \o PeerFrame(RCL_NOTIFY, Notification(T32_E_ONEVENT, <<65>>))}

\* a Library over TCP or UDP with callbacks registered for break and
\* ON-EVENT notifications or not and a function for the event "A" or not,
\* notifications queued and on the socket
InitNotify ==
    /\ dbg = "ready"
    /\ socket = "connected"
    /\ socket_content = <<>>
    /\ response_queue = <<>>
    /\ notify_queue \in SeqUpTo(Notifications, MaxNotify)
    /\ message_id = 0
    /\ pc = "idle"
    /\ args = NoArgs
    /\ recv_message_id = 0
    /\ send_data = <<>>
    /\ wire = <<>>
    /\ result = NoResult
    /\ ops = <<>>
    /\ SyncIdle
    /\ BundleIdle
    /\ ExecIdle
    /\ MemIdle
    /\ RegIdle
    /\ MethodIdle
    /\ codec = "Library"
    /\ obj \in [_link : {"CommunicationTcp", "CommunicationUdp"},
                _notification_callback : SUBSET {T32_E_BREAK, T32_E_ONEVENT},
                _eventlist : SUBSET {<<65>>}]
    /\ record = None
    /\ dec = NoCall
    /\ reads \in [pending : SeqUpTo(NotifyReads(obj._link), MaxArriving), done : {<<>>}]

NextNotify ==
    \/ t32_checkstatenotify
    \/ checkstatenotify_receive
    \/ checkstatenotify_loop

SpecNotify == InitNotify /\ [][NextNotify]_vars

-----------------------------------------------------------------------------
(* Responses and notifications on one TCP stream *)

\* the most frames of the stream, the most reads it is delivered in beyond
\* the first, and the most calls the user makes
MaxStreamFrames == 3
MaxCuts == 1
MaxStreamCalls == 2

\* the frames of the stream: two notifications and the responses to the
\* calls, status ok, one data byte each
StreamNotifications == {<<0, 0, 1>>, <<0, 0, 2>>}
StreamResponse(mid) == <<T32_ERR_OK, get_message_id(mid), 10 + mid>>
StreamFrames ==
    {PeerFrame(RCL_NOTIFY, n) : n \in StreamNotifications}
        \cup {PeerFrame(RCL_RESP, StreamResponse(mid)) : mid \in 1..MaxStreamCalls}

RECURSIVE CutAt(_, _, _)
\* the pieces of stream s cut at the positions of the set cuts, from on
CutAt(s, cuts, from) ==
    IF cuts = {} THEN <<SliceFrom(s, from)>>
    ELSE LET c == CHOOSE x \in cuts : \A y \in cuts : x <= y
         IN <<Slice(s, from, c)>> \o CutAt(s, cuts \ {c}, c)

\* the streams of the peer: frames, the responses in the order of the calls,
\* delivered in reads that end at the end of a frame or 4 bytes into one
Streams ==
    UNION {LET s == Concat(fs)
           IN {[pending |-> CutAt(s, cuts, 0), done |-> <<>>] :
                  cuts \in {c \in SUBSET {p \in 1..(Len(s) - 1) : p % 16 \in {0, 4}} :
                               Cardinality(c) <= MaxCuts}} :
           fs \in {f \in SeqUpTo(StreamFrames, MaxStreamFrames) :
                      /\ f # <<>>
                      /\ \A i, j \in 1..Len(f) :
                            (i < j /\ f[i][5] = RCL_RESP /\ f[j][5] = RCL_RESP)
                                => f[i][10] < f[j][10]}}

\* CommunicationBase.receive with the queue empty: poll_response, recvfrom
\* returning the next piece of the stream
PollStream ==
    /\ pc = "receive"
    /\ response_queue = <<>>
    /\ socket = "connected"
    /\ reads.pending # <<>>
    /\ LET st == tcp_poll_response(socket_content, response_queue, notify_queue,
                                   Head(reads.pending))
       IN /\ socket_content' = st.socket_content
          /\ response_queue' = st.response_queue
          /\ notify_queue' = st.notify_queue
          /\ IF st.raised # "" THEN Finish(Raise(st.raised), ops) ELSE Continue
    /\ reads' = [pending |-> Tail(reads.pending),
                 done |-> Append(reads.done, Head(reads.pending))]
    /\ UNCHANGED <<socket, message_id, args, send_data, wire>>
    /\ UNCHANGED <<syncVars, bundleVars, execVars, objVars>>

\* recvfrom raises socket.timeout when the stream has no more pieces
StreamTimeout == reads.pending = <<>> /\ Timeout

\* the user calls receive_notify_message between two calls; method keeps what
\* the calls returned and whether one of them read the socket itself
ReceiveNotifyMessage ==
    /\ pc = "idle"
    /\ socket = "connected"
    /\ LET r == receive_notify_message("CommunicationTcp", notify_queue, reads.pending)
           returned == IF method = NoMethod THEN <<>> ELSE method.returned
           direct == IF method = NoMethod THEN FALSE ELSE method.direct
       IN /\ notify_queue' = r.notify_queue
          /\ reads' = [pending |-> r.pending,
                       done |-> reads.done \o SubSeq(reads.pending, 1,
                                                      Len(reads.pending) - Len(r.pending))]
          /\ method' = [name |-> "receive_notify_message", pc |-> "idle",
                        returned |-> IF r.raised = "" /\ r.msg_data # None
                                     THEN Append(returned, r.msg_data) ELSE returned,
                        direct |-> direct \/ r.pending # reads.pending]
          /\ method_result' = IF r.raised # "" THEN Raise(r.raised)
                              ELSE Return(r.msg_data)
    /\ UNCHANGED <<socket, socket_content, response_queue, message_id, pc, args,
                   recv_message_id, send_data, wire, result, ops, dbg>>
    /\ UNCHANGED <<syncVars, bundleVars, execVars, memVars, regVars, codecVars,
                   method_requests>>

\* a connected link whose peer sends a stream of responses and notifications
InitStream ==
    /\ reads \in Streams
    /\ dbg = "ready"
    /\ LinkFields
    /\ SyncIdle
    /\ BundleIdle
    /\ ExecIdle
    /\ ObjIdle

NextStream ==
    \/ UserCall(MaxStreamCalls, {RAPI_CMD_NOP}, {<<>>}, {NoForceLength}, {FALSE})
    \/ Receive
    \/ PollStream
    \/ StreamTimeout
    \/ ReceiveNotifyMessage

SpecStream == InitStream /\ [][NextStream]_vars

-----------------------------------------------------------------------------
(* Library.t32_writememoryobj, Library.t32_readmemoryobj *)

RAPI_DSCMD_MEMORY_OBJ_READ == 53
RAPI_DSCMD_MEMORY_OBJ_WRITE == 54
\* CommunicationTcp.getHeadersize
TcpHeadersize == 10

\* common.down_align for size >= 0
down_align(size, align_to) == size - (size % align_to)

\* the Address address.serialize(address_offset, ...) serializes:
\* self.value + address_offset, for a value below 2^30
address_at(address, address_offset) ==
    Address(address.access,
            PyInt(FALSE, to_bytes(int_from_bytes(address.value.mag) + address_offset, 8)))

\* t32_writememoryobj(buffer, address, length, width=width) and
\* t32_readmemoryobj(address, length, width=width) up to their loops;
\* length < 0 is length=None; headersize is 0 in t32_writememoryobj
memoryobj_begin(name, maxpacketsize, buffer, address, length, width) ==
    /\ method = NoMethod
    /\ pc = "idle"
    /\ LET allover_size == IF name = "t32_readmemoryobj" THEN length
                           ELSE IF length < 0 THEN Len(buffer)
                           ELSE Min(length, Len(buffer))
       IN method' = [name |-> name, pc |-> "loop", _maxpacketsize |-> maxpacketsize,
                     buffer |-> buffer, address |-> address, width |-> width,
                     chunk_size |-> IF name = "t32_readmemoryobj"
                                    THEN down_align(maxpacketsize - TcpHeadersize, 8)
                                    ELSE maxpacketsize - 0,
                     allover_size |-> allover_size, remaining_size |-> allover_size,
                     result |-> <<>>]
    /\ UNCHANGED <<linkVars, codecVars, method_result, method_requests>>

\* the loop test of both methods and, for a chunk that remains, the loop
\* body up to the entry of Link.receive
memoryobj_loop(tx_ok) ==
    /\ method.name \in {"t32_writememoryobj", "t32_readmemoryobj"}
    /\ method.pc = "loop"
    /\ pc = "idle"
    /\ IF method.remaining_size = 0
       THEN /\ method' = [method EXCEPT !.pc = "done"]
            /\ method_result' = Return(method.result)
            /\ UNCHANGED <<linkVars, method_requests>>
       ELSE LET chunk_size == Min(method.remaining_size, method.chunk_size)
                chunk_from == method.allover_size - method.remaining_size
                address_params ==
                    address_serialize(address_at(method.address, chunk_from),
                                      method.width).bytes
                payload ==
                    to_bytes(chunk_size, 2) \o address_params
                        \o (IF method.name = "t32_writememoryobj"
                            THEN Slice(method.buffer, chunk_from, chunk_from + chunk_size)
                            ELSE <<>>)
            IN /\ generic_api_call(RAPI_CMD_DEVICE_SPECIFIC,
                                   IF method.name = "t32_writememoryobj"
                                   THEN RAPI_DSCMD_MEMORY_OBJ_WRITE
                                   ELSE RAPI_DSCMD_MEMORY_OBJ_READ,
                                   FALSE, payload, Len(address_params) + 6, FALSE, tx_ok)
               /\ method' = [method EXCEPT !.pc = "call", !.chunk_size = chunk_size]
               /\ method_requests' = IF send_data' # <<>>
                                     THEN Append(method_requests, send_data')
                                     ELSE method_requests
               /\ UNCHANGED method_result
    /\ UNCHANGED codecVars

\* the loop body of both methods once generic_api_call has ended
memoryobj_resume ==
    /\ method.name \in {"t32_writememoryobj", "t32_readmemoryobj"}
    /\ method.pc = "call"
    /\ pc = "idle"
    /\ IF result.kind = "raise"
       THEN /\ method' = [method EXCEPT !.pc = "done"]
            /\ method_result' = IF /\ method.name = "t32_readmemoryobj"
                                   /\ result.exc = "T32_ERR_FN1"
                                THEN Raise("MemoryError") ELSE result
       ELSE /\ method' = [method EXCEPT
                              !.pc = "loop",
                              !.result = IF method.name = "t32_readmemoryobj"
                                         THEN @ \o Slice(result.value, 0, method.chunk_size)
                                         ELSE @,
                              !.remaining_size = @ - method.chunk_size]
            /\ UNCHANGED method_result
    /\ UNCHANGED <<linkVars, codecVars, method_requests>>

\* the packet lengths configured and the lengths transferred
PacketSizes == {64, 1024}
TransferLengths == {0, 1, 30, 48, 64, 1000, 1024, 1100}

MemoryObjBegin ==
    /\ \E name \in {"t32_writememoryobj", "t32_readmemoryobj"},
          maxpacketsize \in PacketSizes, n \in TransferLengths,
          address \in BreakpointAddresses, length \in {0 - 1, 40}, width \in {NoWidth, 4} :
          /\ name = "t32_readmemoryobj" => length = 0 - 1
          /\ memoryobj_begin(name, maxpacketsize,
                             IF name = "t32_readmemoryobj" THEN <<>>
                             ELSE [i \in 1..n |-> i % 256],
                             address, IF name = "t32_readmemoryobj" THEN n ELSE length,
                             width)
    /\ UNCHANGED <<syncVars, bundleVars, execVars, memVars, regVars>>

MemoryObjLoop ==
    /\ \E tx_ok \in BOOLEAN : memoryobj_loop(tx_ok)
    /\ UNCHANGED <<syncVars, bundleVars, execVars, memVars, regVars>>

MemoryObjResume ==
    /\ memoryobj_resume
    /\ UNCHANGED <<syncVars, bundleVars, execVars, memVars, regVars>>

\* what one recvfrom returns while a chunk is transferred: the response to
\* the request, ok with as many bytes as the chunk has or with none, or
\* T32_ERR_FN1
MemoryObjReads(mid) ==
    {PeerFrame(RCL_RESP, <<s, get_message_id(mid)>>) : s \in {0, 90}}
        \cup {PeerFrame(RCL_RESP, <<0, get_message_id(mid)>>
                            \o [i \in 1..int_from_bytes(Slice(args.payload, 0, 2)) |-> 170])}

MemoryObjPoll ==
    /\ \E message_received \in MemoryObjReads(message_id) : PollResponse(message_received)
    /\ UNCHANGED <<syncVars, bundleVars, execVars, objVars>>

NextMemoryObj ==
    \/ MemoryObjBegin
    \/ MemoryObjLoop
    \/ MemoryObjResume
    \/ Receive
    \/ MemoryObjPoll
    \/ Timeout

SpecMemoryObj == InitExecute /\ [][NextMemoryObj]_vars

-----------------------------------------------------------------------------
(* CommunicationUdp.transmit, extract_message, poll_response *)

T32_API_RECEIVE == 1
T32_API_NORMAL_TRANSMIT == 17
MESSAGE_COMPLETE == 0
MESSAGE_INCOMPLETE == 1
HANDSHAKE == 2
HEADER_LEN_SHORT == 4
HEADER_LEN_LONG == 7

\* a followingPacketFlag that is set on every datagram
following_always(data, chunk_size, chunk_count) == 1

\* followingPacketFlag of the chunk_count-th chunk
followingPacketFlag(data, chunk_size, chunk_count) ==
    IF SliceFrom(data, chunk_size * chunk_count) # <<>> THEN 1 ELSE 0

RECURSIVE udp_chunks(_, _, _, _)
\* the while loop of CommunicationUdp.transmit from the chunk_count-th chunk
\* on: the datagrams handed to sendto
udp_chunks(data, chunk_size, chunk_count, transmit_block_id) ==
    LET chunk == Slice(data, chunk_size * (chunk_count - 1), chunk_size * chunk_count)
    IN IF chunk = <<>> THEN <<>>
       ELSE <<<<T32_API_NORMAL_TRANSMIT, followingPacketFlag(data, chunk_size, chunk_count)>>
                  \o to_bytes(transmit_block_id, 2) \o chunk>>
                \o udp_chunks(data, chunk_size, chunk_count + 1,
                              (transmit_block_id + 1) % 65536)

\* CommunicationUdp.transmit(data) for _packlen > 4, the sendto numbered
\* failing raising if there is one; method keeps the argument and the object
\* as it was
udp_transmit(data, failing) ==
    /\ codec = "CommunicationUdp"
    /\ LET chunks == udp_chunks(Zeros(5) \o data, obj._packlen - 4, 1,
                                obj._transmit_block_id)
           raised == failing \in 1..Len(chunks)
           sent == IF raised THEN SubSeq(chunks, 1, failing - 1) ELSE chunks
       IN /\ method_requests' = sent
          /\ obj' = [obj EXCEPT !._transmit_block_id = (@ + Len(sent)) % 65536]
          /\ method' = [name |-> "transmit", pc |-> "done", data |-> data, self |-> obj]
          /\ method_result' = IF raised THEN Raise("ApiConnectionTransmitError")
                              ELSE Return(<<>>)
    /\ UNCHANGED <<codec, record, dec>>

\* the data transmitted: n bytes 1, 2, ...
TransmitData == {[i \in 1..n |-> i] : n \in {0, 1, 2, 3, 6, 7, 20}}

UdpTransmit ==
    /\ method = NoMethod
    /\ \E data \in TransmitData, failing \in 0..2 : udp_transmit(data, failing)
    /\ UNCHANGED <<linkVars, syncVars, bundleVars, execVars, memVars, regVars>>

\* a CommunicationUdp with a packet length above 4 and a transmit block id
InitUdpTransmit ==
    /\ LinkInit
    /\ SyncIdle
    /\ BundleIdle
    /\ ExecIdle
    /\ MemIdle
    /\ RegIdle
    /\ MethodIdle
    /\ codec = "CommunicationUdp"
    /\ obj \in [_packlen : {5, 6, 8, 16, 1024}, _transmit_block_id : {0, 1, 65534, 65535}]
    /\ record = None
    /\ dec = NoCall

NextUdpTransmit == UdpTransmit

SpecUdpTransmit == InitUdpTransmit /\ [][NextUdpTransmit]_vars


\* the handshake reply of extract_message
udp_handshake == <<7, 0, 0, 0, 0, 0, 0, 0, 84, 82, 65, 67, 69, 51, 50, 0>>

\* CommunicationUdp.extract_message(packet), the socket being there, on
\* st = [socket_content, response_queue, notify_queue]: st after the call
\* with sent, the datagrams handed to sendto, and raised
udp_extract_message(packet, st) ==
    LET header_length == IF st.socket_content # <<>> THEN HEADER_LEN_SHORT
                         ELSE HEADER_LEN_LONG
        content_len == Len(packet)
        out == [socket_content |-> st.socket_content,
                response_queue |-> st.response_queue,
                notify_queue |-> st.notify_queue, sent |-> <<>>, raised |-> ""]
        content == st.socket_content \o SliceFrom(packet, header_length)
    IN IF packet = <<>> THEN [out EXCEPT !.raised = "IndexError"]
       ELSE IF packet[1] = 43 THEN out
       ELSE IF content_len < header_length THEN out
       ELSE IF packet[2] = HANDSHAKE THEN [out EXCEPT !.sent = <<udp_handshake>>]
       ELSE IF packet[2] = MESSAGE_COMPLETE
       THEN IF packet[1] = T32_API_NOTIFICATION
            THEN [out EXCEPT !.notify_queue = Append(@, content), !.socket_content = <<>>]
            ELSE IF packet[1] = T32_API_RECEIVE
            THEN [out EXCEPT !.response_queue = Append(@, content),
                             !.socket_content = <<>>]
            ELSE [out EXCEPT !.socket_content = content, !.raised = "ConnectionError"]
       ELSE IF packet[2] = MESSAGE_INCOMPLETE THEN [out EXCEPT !.socket_content = content]
       ELSE out

\* CommunicationUdp.poll_response, recvfrom returning packet_received
udp_poll_response(packet_received) ==
    /\ codec = "CommunicationUdp"
    /\ socket = "connected"
    /\ LET st == udp_extract_message(packet_received,
                                     [socket_content |-> socket_content,
                                      response_queue |-> response_queue,
                                      notify_queue |-> notify_queue])
       IN /\ socket_content' = st.socket_content
          /\ response_queue' = st.response_queue
          /\ notify_queue' = st.notify_queue
          /\ method_requests' = st.sent
          /\ method_result' = IF st.raised # "" THEN Raise(st.raised) ELSE Return(<<>>)
    /\ method' = [name |-> "poll_response", pc |-> "done"]
    /\ reads' = [reads EXCEPT !.done = Append(@, packet_received)]
    /\ UNCHANGED <<socket, message_id, pc, args, recv_message_id, send_data, wire, result,
                   dbg, ops>>
    /\ UNCHANGED codecVars

\* the most datagrams the peer sends
MaxDatagrams == 3

\* the datagrams of the peer, all with block id 1: responses and
\* notifications, complete or not, of 5, 7 and 8 bytes; a handshake request of
\* 7 bytes and one of 4; one that starts with '+'; one of a class that is
\* neither; an empty one
Datagrams ==
    {<<class, flag, 1, 0>> \o tail :
         class \in {T32_API_RECEIVE, T32_API_NOTIFICATION},
         flag \in {MESSAGE_COMPLETE, MESSAGE_INCOMPLETE},
         tail \in {<<12>>, <<0, 0, 0>>, <<0, 0, 0, 11>>}}
        \cup {<<T32_API_RECEIVE, HANDSHAKE, 1, 0, 0, 0, 0>>,
              <<T32_API_RECEIVE, HANDSHAKE, 1, 0>>,
              <<43, MESSAGE_COMPLETE, 1, 0, 0, 0, 0, 9>>,
              <<9, MESSAGE_COMPLETE, 1, 0, 0, 0, 0, 9>>,
              <<>>}

UdpPollResponse ==
    /\ Len(reads.done) < MaxDatagrams
    /\ \E packet_received \in Datagrams : udp_poll_response(packet_received)
    /\ UNCHANGED <<syncVars, bundleVars, execVars, memVars, regVars>>

\* a connected CommunicationUdp with nothing received yet
InitUdpReceive ==
    /\ reads = NoReads
    /\ dbg = "ready"
    /\ LinkFields
    /\ SyncIdle
    /\ BundleIdle
    /\ ExecIdle
    /\ MemIdle
    /\ RegIdle
    /\ MethodIdle
    /\ codec = "CommunicationUdp"
    /\ obj = [_packlen |-> 1024, _transmit_block_id |-> 1]
    /\ record = None
    /\ dec = NoCall

NextUdpReceive == UdpPollResponse

SpecUdpReceive == InitUdpReceive /\ [][NextUdpReceive]_vars

-----------------------------------------------------------------------------
(* Several frames in one read of the TCP socket *)

\* the most frames one read delivers
MaxBackToBack == 3

\* the frames the peer sends back to back: [message_type, payload], a
\* response, a notification or a request, with 0, 3 or 8 bytes of payload
BackToBack ==
    SeqUpTo([message_type : {RCL_RESP, RCL_NOTIFY, T32_NETTCP_RCL_REQ},
             payload : {<<>>, <<1, 2, 3>>, <<1, 2, 3, 4, 5, 6, 7, 8>>}],
            MaxBackToBack) \ {<<>>}

\* a connected link whose next read delivers all the frames of the peer,
\* which obj keeps
InitFrames ==
    /\ dbg = "ready"
    /\ LinkFields
    /\ SyncIdle
    /\ BundleIdle
    /\ ExecIdle
    /\ MemIdle
    /\ RegIdle
    /\ MethodIdle
    /\ codec = "frames"
    /\ obj \in BackToBack
    /\ record = None
    /\ dec = NoCall
    /\ reads = [pending |-> <<Concat([i \in 1..Len(obj) |->
                                         PeerFrame(obj[i].message_type, obj[i].payload)])>>,
                done |-> <<>>]

NextFrames == PollRead

SpecFrames == InitFrames /\ [][NextFrames]_vars

-----------------------------------------------------------------------------
(* connect and exit of CommunicationUdp and CommunicationTcp *)

T32_API_CONNECTREQUEST == 3
T32_API_DISCONNECT == 4
T32_API_SYNCACKN_BACK == 19

\* struct.pack("BBHHH8s{}x", ...) of CommunicationUdp.connect for a padding
\* length that is not negative
magic_sequence(transmit_block_id, port, receive_port, padding_length) ==
    <<T32_API_CONNECTREQUEST, 1>> \o to_bytes(transmit_block_id, 2) \o to_bytes(port, 2)
        \o to_bytes(receive_port, 2) \o MAGIC_PATTERN \o Zeros(padding_length)

\* the outcome of CommunicationUdp.connect once recv returned data
udp_connect_reply(data, sequence) ==
    IF data = <<>> THEN Raise("IndexError")
    ELSE IF ~(data[1] = T32_API_SYNCACKN_BACK) THEN Raise("ApiConnectionInitError")
    ELSE IF ~(Tail(data) = Tail(sequence)) THEN Raise("ApiConnectionInitError")
    ELSE Return(<<>>)

\* CommunicationUdp.connect; failing: the call of the socket module that
\* raises, if one does; val: the receive buffer size getsockopt returns;
\* receive_port: the port bind chose; data: what recv returns
udp_connect(failing, val, receive_port, data) ==
    /\ codec = "CommunicationUdp"
    /\ method' = [name |-> "connect", pc |-> "done", data |-> data, failing |-> failing,
                  socket |-> socket]
    /\ IF socket # "None"
       THEN /\ method_result' = Return(<<>>)
            /\ method_requests' = <<>>
            /\ UNCHANGED <<socket, obj, receive_block_id>>
       ELSE IF failing = "socket"
       THEN /\ method_result' = Raise("ApiConnectionInitError")
            /\ method_requests' = <<>>
            /\ UNCHANGED <<socket, obj, receive_block_id>>
       ELSE IF failing = "bind"
       THEN /\ method_result' = Raise("ApiConnectionInitError")
            /\ method_requests' = <<>>
            /\ socket' = "unconnected"
            /\ UNCHANGED <<obj, receive_block_id>>
       ELSE LET packlen == Min(val, obj._packlen)
                padding_length == packlen - (1 + 1 + 2 + 2 + 2 + Len(MAGIC_PATTERN))
                sequence == magic_sequence(1, obj._port, receive_port, padding_length)
                reply == udp_connect_reply(data, sequence)
            IN IF padding_length < 0
               THEN /\ method_result' = Raise("struct.error")
                    /\ method_requests' = <<>>
                    /\ socket' = "unconnected"
                    /\ obj' = [obj EXCEPT !._packlen = packlen, !._transmit_block_id = 1]
                    /\ UNCHANGED receive_block_id
               ELSE IF failing \in {"sendto", "recv"}
               THEN /\ method_result' = Raise("ApiConnectionInitError")
                    /\ method_requests' = IF failing = "sendto" THEN <<>> ELSE <<sequence>>
                    /\ socket' = "unconnected"
                    /\ obj' = [obj EXCEPT !._packlen = packlen, !._transmit_block_id = 1]
                    /\ UNCHANGED receive_block_id
               ELSE /\ method_result' = reply
                    /\ method_requests' = <<sequence>>
                    /\ socket' = IF reply.kind = "return" THEN "connected" ELSE "unconnected"
                    /\ obj' = [obj EXCEPT !._packlen = packlen, !._transmit_block_id = 1]
                    /\ receive_block_id' = IF reply.kind = "return"
                                           THEN int_from_bytes(Slice(data, 2, 4))
                                           ELSE receive_block_id
    /\ UNCHANGED <<codec, record, dec>>

\* CommunicationTcp.connect; failing: the call of the socket module that
\* raises, if one does
tcp_connect(failing) ==
    /\ codec = "CommunicationTcp"
    /\ method' = [name |-> "connect", pc |-> "done", data |-> <<>>, failing |-> failing,
                  socket |-> socket]
    /\ method_requests' = <<>>
    /\ IF socket # "None"
       THEN /\ method_result' = Return(<<>>)
            /\ UNCHANGED socket
       ELSE IF failing = "socket"
       THEN /\ method_result' = Raise("OSError")
            /\ UNCHANGED socket
       ELSE IF failing = "connect"
       THEN /\ method_result' = Raise("OSError")
            /\ socket' = "unconnected"
       ELSE /\ method_result' = Return(<<>>)
            /\ socket' = "connected"
    /\ UNCHANGED <<codec, obj, record, dec, receive_block_id>>

\* struct.pack("Q8s", T32_API_DISCONNECT, MAGIC_PATTERN)
disconnect_datagram == to_bytes(T32_API_DISCONNECT, 8) \o MAGIC_PATTERN

\* CommunicationUdp.exit and CommunicationTcp.exit; sent: how many of the
\* five sendto of the first succeed before one raises
link_exit(sent) ==
    /\ method' = [name |-> "exit", pc |-> "done", data |-> <<>>, failing |-> "",
                  socket |-> socket]
    /\ method_result' = Return(<<>>)
    /\ method_requests' = IF socket # "None" /\ codec = "CommunicationUdp"
                          THEN [i \in 1..sent |-> disconnect_datagram]
                          ELSE <<>>
    /\ socket' = "None"
    /\ UNCHANGED <<codec, obj, record, dec, receive_block_id>>

\* the replies of the peer to the connect request sequence: its echo marked
\* sync-ack-back; the request itself; the echo with another block id, with
\* another magic pattern, with the last byte changed, without its last byte;
\* the marker alone; an empty datagram
ConnectReplies(sequence) ==
    LET echo == <<T32_API_SYNCACKN_BACK>> \o Tail(sequence)
    IN {echo, sequence, [echo EXCEPT ![3] = 2], [echo EXCEPT ![9] = 116],
        [echo EXCEPT ![Len(echo)] = (@ + 1) % 256], SubSeq(echo, 1, Len(echo) - 1),
        <<T32_API_SYNCACKN_BACK>>, <<>>}

\* the ports bind chooses
ReceivePorts == {40000, 40001}

\* the messages that arrive on a connected link: a response and a
\* notification, whole, and the first part of a response
ConnectArrivals ==
    IF codec = "CommunicationUdp"
    THEN {<<T32_API_RECEIVE, MESSAGE_COMPLETE, 1, 0, 0, 0, 0, 11>>,
          <<T32_API_NOTIFICATION, MESSAGE_COMPLETE, 1, 0, 0, 0, 0, 12>>,
          <<T32_API_RECEIVE, MESSAGE_INCOMPLETE, 1, 0, 0, 0, 0, 13>>}
    ELSE {PeerFrame(RCL_RESP, <<0, 0, 11>>), PeerFrame(RCL_NOTIFY, <<12>>),
          SubSeq(PeerFrame(RCL_RESP, <<0, 0, 13>>), 1, 9)}

\* the most reads of the socket
MaxConnectReads == 2

UdpConnect ==
    /\ \E failing \in {"", "socket", "bind", "sendto", "recv"}, val \in {1024, 32768},
          receive_port \in ReceivePorts :
          LET packlen == Min(val, obj._packlen)
          IN \E data \in (IF packlen < 16 \/ failing # "" THEN {<<>>}
                          ELSE ConnectReplies(magic_sequence(1, obj._port, receive_port,
                                                             packlen - 16))) :
                 udp_connect(failing, val, receive_port, data)
    /\ UNCHANGED <<linkVars_but_socket, sync_stack, sync_max, sync_recvd, sync_sent,
                   sync_result, bundleVars, execVars, memVars, regVars>>

TcpConnect ==
    /\ \E failing \in {"", "socket", "connect"} : tcp_connect(failing)
    /\ UNCHANGED <<linkVars_but_socket, sync_stack, sync_max, sync_recvd, sync_sent,
                   sync_result, bundleVars, execVars, memVars, regVars>>

LinkExit ==
    /\ \E sent \in {0, 5} : link_exit(sent)
    /\ UNCHANGED <<linkVars_but_socket, sync_stack, sync_max, sync_recvd, sync_sent,
                   sync_result, bundleVars, execVars, memVars, regVars>>

\* poll_response on a connected link, recvfrom returning one of the arrivals
ConnectRead ==
    /\ socket = "connected"
    /\ Len(reads.done) < MaxConnectReads
    /\ \E message_received \in ConnectArrivals :
          LET st == IF codec = "CommunicationUdp"
                    THEN udp_extract_message(message_received,
                                             [socket_content |-> socket_content,
                                              response_queue |-> response_queue,
                                              notify_queue |-> notify_queue])
                    ELSE tcp_poll_response(socket_content, response_queue, notify_queue,
                                           message_received)
          IN /\ socket_content' = st.socket_content
             /\ response_queue' = st.response_queue
             /\ notify_queue' = st.notify_queue
             /\ reads' = [reads EXCEPT !.done = Append(@, message_received)]
    /\ method' = [name |-> "poll_response", pc |-> "done", data |-> <<>>, failing |-> "",
                  socket |-> socket]
    /\ method_result' = Return(<<>>)
    /\ method_requests' = <<>>
    /\ UNCHANGED <<socket, message_id, pc, args, recv_message_id, send_data, wire, result,
                   dbg, ops>>
    /\ UNCHANGED <<syncVars, bundleVars, execVars, memVars, regVars, codecVars>>

\* a CommunicationUdp or a CommunicationTcp as __init__ leaves it
InitConnect ==
    /\ socket = "None"
    /\ socket_content = <<>>
    /\ response_queue = <<>>
    /\ notify_queue = <<>>
    /\ reads = NoReads
    /\ message_id = 0
    /\ pc = "idle"
    /\ args = NoArgs
    /\ recv_message_id = 0
    /\ send_data = <<>>
    /\ wire = <<>>
    /\ result = NoResult
    /\ dbg = "init_1"
    /\ ops = <<>>
    /\ SyncIdle
    /\ BundleIdle
    /\ ExecIdle
    /\ MemIdle
    /\ RegIdle
    /\ MethodIdle
    /\ \/ /\ codec = "CommunicationUdp"
          /\ obj \in [_packlen : {12, 16, 20}, _transmit_block_id : {0}, _port : {20000}]
       \/ /\ codec = "CommunicationTcp"
          /\ obj = [_packlen |-> 16384, _transmit_block_id |-> 0, _port |-> 20000]
    /\ record = None
    /\ dec = NoCall

NextConnect ==
    \/ UdpConnect
    \/ TcpConnect
    \/ LinkExit
    \/ ConnectRead

SpecConnect == InitConnect /\ [][NextConnect]_vars

-----------------------------------------------------------------------------
(* Chunked memory transfers with small packet lengths *)

\* the most requests one transfer is followed for
MaxChunkRequests == 4

\* the packet lengths configured, from the TCP header size on, and the
\* lengths transferred
ChunkPacketSizes == {10, 16, 17, 18, 26}
ChunkLengths == {0, 1, 8, 9, 20}

ChunkBegin ==
    /\ \E name \in {"t32_writememoryobj", "t32_readmemoryobj"},
          maxpacketsize \in ChunkPacketSizes, n \in ChunkLengths :
          memoryobj_begin(name, maxpacketsize,
                          IF name = "t32_readmemoryobj" THEN <<>>
                          ELSE [i \in 1..n |-> i % 256],
                          Address(<<68>>, PyInt(FALSE, <<0, 16>>)),
                          IF name = "t32_readmemoryobj" THEN n ELSE 0 - 1, NoWidth)
    /\ UNCHANGED <<syncVars, bundleVars, execVars, memVars, regVars>>

ChunkLoop == message_id < MaxChunkRequests /\ MemoryObjLoop

NextChunks ==
    \/ ChunkBegin
    \/ ChunkLoop
    \/ MemoryObjResume
    \/ Receive
    \/ MemoryObjPoll
    \/ Timeout

SpecChunks == InitExecute /\ [][NextChunks]_vars

-----------------------------------------------------------------------------
(* Claims *)

\* the step of receive() that takes a message off the response queue
TakesMessage ==
    /\ pc = "receive"
    /\ response_queue # <<>>
    /\ response_queue' = Tail(response_queue)

\* C1: receive(message_id) discards a queued message whose id byte (byte 1) is
\* lower than message_id, returns the first message whose id equals
\* message_id, and raises ConnectionError for a message whose id is greater.
C1_ReceiveOrdersByMessageId ==
    [][(TakesMessage /\ Len(Head(response_queue)) >= 2) =>
          LET message == Head(response_queue)
          IN /\ (message[2] < recv_message_id) => (pc' = "receive" /\ result' = result)
             /\ (message[2] = recv_message_id) =>
                    (pc' = "idle" /\ result' = call_result(message))
             /\ (message[2] > recv_message_id) =>
                    (pc' = "idle" /\ result' = Raise("ConnectionError"))]_vars

C3_Frame == reads.done[1] \o reads.done[2]

\* poll_response on the frame arriving in a single read
C3_Unsplit == tcp_poll_response(<<>>, <<>>, <<>>, C3_Frame)

\* C3: once the two pieces of a response or notification frame have been
\* read, exactly one message is in the queue of the frame's type, none in the
\* other, and the queues are those a single read of the whole frame gives.
C3_SplitFrameReassembled ==
    (/\ reads.pending = <<>>
     /\ Len(reads.done) = 2
     /\ int_from_bytes(Slice(C3_Frame, 4, 8)) \in {RCL_RESP, RCL_NOTIFY}) =>
        /\ response_queue = C3_Unsplit.response_queue
        /\ notify_queue = C3_Unsplit.notify_queue
        /\ Len(response_queue) + Len(notify_queue) = 1

\* C4: a response carrying the current message id and a status byte s in
\* 1..255 makes the call raise the exception class the table lists for s, or
\* ApiError(s, message) when s is not in the table; it never returns a payload.
C4_StatusMapping ==
    [][(/\ TakesMessage
        /\ Len(Head(response_queue)) >= 2
        /\ Head(response_queue)[2] = recv_message_id
        /\ Head(response_queue)[1] \in 1..255) =>
          LET s == Head(response_queue)[1]
          IN /\ pc' = "idle"
             /\ result'.kind = "raise"
             /\ result'.exc = (IF s \in MappedCodes
                               THEN error_code_exception_mapping(s) ELSE "ApiError")
             /\ result'.code = s]_vars

\* C5: sync(maxTries) waits for at most maxTries datagrams in total, those of
\* the recursive retries included.
C5_SyncBudget == sync_recvd <= sync_max

\* C6: what Debugger.connect does is a prefix of sync, attach, outcome, exit,
\* connect, sync, attach, outcome: at most two attach attempts, the second only
\* after the first raised ApiConnectionTimeoutError and the link was torn down
\* and re-initialised; every other error of the first attempt, and every
\* error of the second, reaches the caller.
C6_AttachRetryPolicy ==
    LET n == Len(ops)
        shape == <<"sync", "attach", "", "exit", "connect", "sync", "attach", "">>
    IN /\ n <= 8
       /\ \A i \in 1..n : i \notin {3, 8} => ops[i] = shape[i]
       /\ n > 3 => ops[3] = "ApiConnectionTimeoutError"
       /\ (n = 3 /\ ops[3] \notin {"return", "ApiConnectionTimeoutError"}) =>
              (dbg = "failed" /\ result.kind = "raise" /\ result.exc = ops[3])
       /\ (n = 8 /\ ops[8] # "return") =>
              (dbg = "failed" /\ result.kind = "raise" /\ result.exc = ops[8])
       /\ (dbg = "ready" /\ n = 3) => ops[3] = "return"
       /\ (dbg = "ready" /\ n = 8) => ops[8] = "return"
       /\ dbg \in {"ready", "disconnected"} => n \in {3, 8}

\* C6's case: the second attach attempt timed out as well and the caller got
\* the timeout
C6_Witness ==
    /\ ops = <<"sync", "attach", "ApiConnectionTimeoutError", "exit", "connect",
               "sync", "attach", "ApiConnectionTimeoutError">>
    /\ dbg = "failed"
    /\ result.exc = "ApiConnectionTimeoutError"

\* C7: the session is Disconnected (socket closed, socket handle None) after
\* an explicit disconnect and after a call of a Ready session failed with a
\* fatal transport or framing error.
C7_FatalErrorDisconnects ==
    (\/ dbg = "disconnected"
     \/ /\ dbg = "ready"
        /\ pc = "idle"
        /\ result.kind = "raise"
        /\ result.exc \in {"ConnectionError", "ApiConnectionTransmitError"})
        => socket = "None"

\* the envelope the text describes for the call recorded in args
C8_Form ==
    LET n == Len(args.payload)
        head == <<args.rapi_cmd, args.opt_arg, send_data[4]>>
        padded == args.payload \o (IF n % 2 = 1 THEN <<0>> ELSE <<>>)
    IN /\ send_data # <<>>
       /\ (n + 2 <= 255 /\ ~args.force_16bit_length) =>
              send_data = <<n + 2>> \o head \o padded
       /\ ~(n + 2 <= 255 /\ ~args.force_16bit_length) =>
              send_data = <<0>> \o head \o <<(n + 4) % 256, (n + 4) \div 256>>
                              \o padded
       /\ (n = 10 /\ args.rapi_cmd = 116 /\ args.opt_arg = 0
               /\ ~args.force_16bit_length) =>
              SubSeq(send_data, 1, 3) = <<12, 116, 0>>

\* a call without force_length has been made
C8_Called == args # NoArgs /\ args.force_length = NoForceLength

\* C8 as stated: without force_length the envelope of a payload of n bytes is
\* compact (n+2, command, subcommand, message id, payload) exactly when
\* n+2 <= 0xFF and force_16bit_length is false, and extended (0, command,
\* subcommand, message id, u16 n+4, payload) otherwise; the payload is followed
\* by one zero byte when n is odd; n = 10, command 0x74, subcommand 0 give
\* 0x0C 0x74 0x00.
C8_EnvelopeFormAnyLength == C8_Called => C8_Form

\* C8: the same, for payloads with n+4 <= 0xF000 or of the compact form; a
\* longer payload builds no envelope: the call raises
\* ApiProtocolTransmitError and leaves the message-id counter alone.
C8_EnvelopeForm ==
    /\ [](C8_Called =>
             IF Len(args.payload) + 4 > 61440
             THEN /\ send_data = <<>>
                  /\ result = Raise("ApiProtocolTransmitError")
                  /\ wire = <<>>
             ELSE C8_Form)
    /\ [][(pc = "idle" /\ args' # args /\ send_data' = <<>>) =>
              message_id' = message_id]_vars

\* C8's case: the longest payload that still gets an envelope, of the extended
\* form, its length field 0xF000
C8_Witness ==
    /\ C8_Called
    /\ Len(args.payload) = 61436
    /\ SubSeq(send_data, 1, 6) = <<0, args.rapi_cmd, 0, send_data[4], 0, 240>>
    /\ Len(send_data) = 61442

RECURSIVE C9_Total(_)
\* the sum of the serialized sizes of a list of accesses
C9_Total(list) ==
    IF list = <<>> THEN 0 ELSE Len(serialize(Head(list))) + C9_Total(Tail(list))

RECURSIVE C9_Accesses(_)
\* the accesses of a list of requests, in order
C9_Accesses(requests) ==
    IF requests = <<>> THEN <<>>
    ELSE Head(requests).access_list \o C9_Accesses(Tail(requests))

\* ceil(a / b)
C9_Ceil(a, b) == (a + b - 1) \div b

\* the generator has run to its end or to its raise
C9_Finished == gen_pc \in {"done", "DirectAccessError"}

\* C9 as stated: a list whose accesses each serialize to at most 0x3C00 bytes
\* is yielded in exactly ceil(total / 0x3C00) requests.
C9_CeilRequests ==
    (/\ C9_Finished
     /\ \A i \in 1..Len(access_list) : Len(serialize(access_list[i])) <= 15360) =>
        /\ gen_pc = "done"
        /\ Len(yielded) = C9_Ceil(C9_Total(access_list), 15360)

\* C9: a list whose accesses each serialize to at most 0x3BFF bytes is packed
\* greedily in order: the generator does not raise; the requests hold the
\* accesses in their order; only the single request of an empty list is
\* empty; the accesses of a request total at most 0x3BFF bytes, and those of
\* a request but the last, with the first access of the next request, more
\* than 0x3BFF.  So there are at least max(1, ceil(total / 0x3BFF)) requests
\* and at most max(1, number of accesses).
C9_GreedyRequests ==
    (/\ C9_Finished
     /\ \A i \in 1..Len(access_list) : Len(serialize(access_list[i])) <= 15359) =>
        LET n == Len(yielded)
            total == C9_Total(access_list)
        IN /\ gen_pc = "done"
           /\ C9_Accesses(yielded) = access_list
           /\ \A i \in 1..n :
                 /\ yielded[i].access_list # <<>> \/ access_list = <<>>
                 /\ C9_Total(yielded[i].access_list) <= 15359
                 /\ Len(yielded[i].payload) = C9_Total(yielded[i].access_list) + 1
           /\ \A i \in 1..(n - 1) :
                 C9_Total(yielded[i].access_list)
                     + Len(serialize(Head(yielded[i + 1].access_list))) > 15359
           /\ n >= 1
           /\ n >= C9_Ceil(total, 15359)
           /\ n <= Len(access_list) \/ access_list = <<>>

\* C9's case: two accesses of 0x1E00 bytes each, 0x3C00 in total, come in two
\* requests
C9_Witness ==
    /\ gen_pc = "done"
    /\ Len(access_list) = 2
    /\ C9_Total(access_list) = 15360
    /\ Len(yielded) = 2

\* C10: the payload of every request yielded, its flag byte included, is at
\* most 0x3C00 bytes long.
C10_RequestSizeBound ==
    \A i \in 1..Len(yielded) : Len(yielded[i].payload) <= 15360

\* C10's case: a split bundle with a request of exactly 0x3C00 bytes
C10_Witness ==
    /\ Len(yielded) >= 2
    /\ \E i \in 1..Len(yielded) : Len(yielded[i].payload) = 15360

RECURSIVE C11_Serialized(_)
\* the serialized accesses of a list, one after the other
C11_Serialized(list) ==
    IF list = <<>> THEN <<>> ELSE serialize(Head(list)) \o C11_Serialized(Tail(list))

\* C11: every request yielded is its accesses followed by one flag byte; the
\* flag is 0x01 (hold) in every request but the last, and in the last 0x00
\* when release_debug_port is true and 0x01 otherwise; once the generator is
\* exhausted the requests hold the accesses of the bundle in their order,
\* each once; an empty bundle yields one request, of the flag byte alone.
C11_HoldReleaseFlags ==
    LET n == Len(yielded)
        last_flag == IF release_debug_port THEN 0 ELSE 1
    IN /\ \A i \in 1..n :
              yielded[i].payload =
                  C11_Serialized(yielded[i].access_list)
                      \o <<IF i = n /\ gen_pc \in {"end", "done"} THEN last_flag ELSE 1>>
       /\ gen_pc \in {"end", "done"} =>
              /\ n >= 1
              /\ C9_Accesses(yielded) = access_list
              /\ access_list = <<>> =>
                     yielded = <<[access_list |-> <<>>, payload |-> <<last_flag>>]>>
       /\ gen_pc = "loop" => n >= 1
       /\ gen_pc \in {"idle", "start"} => n = 0

\* C11's case: a releasing bundle split into a held request and a released one
C11_Witness ==
    /\ gen_pc = "done"
    /\ release_debug_port
    /\ Len(yielded) = 2
    /\ yielded[1].payload[Len(yielded[1].payload)] = 1
    /\ yielded[2].payload[Len(yielded[2].payload)] = 0
    /\ yielded[1].access_list \o yielded[2].access_list = access_list

\* the bundle holds an access too large for any request
C12_Oversized == \E i \in 1..Len(access_list) : exceeds(Len(serialize(access_list[i])))

\* C12: when an access of the bundle serializes to more than 0x3C00 - 1
\* bytes, _execute fails with DirectAccessError and no request of the bundle
\* has been put on the socket, wherever the access stands in the list.
C12_CapacityErrorBeforeSend ==
    (exec_pc = "done" /\ exec_result.exc = "DirectAccessError")
        => (C12_Oversized /\ transmitted = 0)

\* the class of the result an access of that kind decodes to
C14_ResultClass(a) ==
    IF a.cmd = GETINFO THEN "DirectAccessGetInfoResult"
    ELSE IF a.cmd = SETINFO THEN "DirectAccessResult"
    ELSE "DirectAccessShiftRawResult"

\* C14: when the peer answers every request of a bundle with status OK,
\* _execute returns exactly one result per access, in the order the accesses
\* were added, whatever the kinds of the accesses.
C14_OneResultPerAccess ==
    (exec_pc = "done" /\ result.kind = "return" /\ ~C12_Oversized)
        => /\ exec_result.kind = "return"
           /\ Len(results) = Len(access_list)
           /\ \A i \in 1..Len(results) : results[i].cls = C14_ResultClass(access_list[i])

RECURSIVE C13_Length(_)
\* the length of the serialized form of a memory bundle: the accesses, list
\* being those left, and for the whole bundle the 4-byte prefix and the XX marker
C13_Length(list) ==
    IF list = <<>> THEN 0
    ELSE Len(memory_access_serialize(Head(list)).bytes) + C13_Length(Tail(list))

\* the serialized form of the bundle is longer than 0x3C00 bytes
C13_Oversize == 4 + C13_Length(mem_access_list) + 2 > MEMORY_EMU_CBMAXDATASIZE

\* C13: a memory bundle whose serialized form is longer than 0x3C00 bytes
\* fails in serialize with the bundle-too-large error (the error of the size
\* test), the same for every such length, and t32_transfermemorybundleobj
\* then sends nothing and leaves the message-id counter alone; a bundle of
\* exactly 0x3C00 bytes is accepted, its first two bytes holding its length.
C13_MemoryBundleSizeGuard ==
    /\ (mem_pc # "idle" /\ C13_Oversize)
           => /\ mem_pc = "done"
              /\ mem_result = Raise("NotImplementedError")
              /\ message_id = 0
              /\ wire = <<>>
    /\ (mem_pc # "idle" /\ 4 + C13_Length(mem_access_list) + 2 = MEMORY_EMU_CBMAXDATASIZE)
           => /\ memory_bundle_serialize(mem_access_list).raised = ""
              /\ args.payload = memory_bundle_serialize(mem_access_list).bytes
              /\ Slice(args.payload, 0, 2) = to_bytes(MEMORY_EMU_CBMAXDATASIZE, 2)

\* C15: in every state of a Register reached through the constructor, the
\* setters, _deserialize and read(), value and fvalue are not both set.
C15_ValueXorFvalue == ~(reg.value # PyNone /\ reg.fvalue # PyNone)

\* C16: assigning an int to value leaves fvalue None, assigning a float to
\* fvalue leaves value None, and assigning any other object that is not None
\* raises RegisterValueError and leaves value and fvalue as they were.
C16_Setters ==
    [][/\ (reg_op'.op = "value" /\ IsInt(reg_op'.arg))
              => (reg_raised' = "" /\ reg'.value = reg_op'.arg /\ reg'.fvalue = PyNone)
       /\ (reg_op'.op = "fvalue" /\ reg_op'.arg.type = "float")
              => (reg_raised' = "" /\ reg'.fvalue = reg_op'.arg /\ reg'.value = PyNone)
       /\ (reg_op'.op = "value" /\ ~IsInt(reg_op'.arg) /\ reg_op'.arg # PyNone)
              => (reg_raised' = "RegisterValueError" /\ reg' = reg)
       /\ (reg_op'.op = "fvalue" /\ reg_op'.arg.type # "float" /\ reg_op'.arg # PyNone)
              => (reg_raised' = "RegisterValueError" /\ reg' = reg)]_vars

\* C16's case: an int was assigned to value, which holds it, and fvalue is None
C16_Witness ==
    /\ reg_op.op = "value"
    /\ IsInt(reg_op.arg)
    /\ reg.value = reg_op.arg
    /\ reg.fvalue = PyNone
    /\ reg_raised = ""

\* C17: Address.deserialize of the record Address.serialize made of an
\* Address returns, the length it returns is the record's length, and the
\* Address it returns has the value and the access code of the one serialized
C17_AddressRoundTrip ==
    (codec = "Address" /\ dec.pc \in {"return", "raise"})
        => /\ dec.pc = "return"
           /\ dec.read_ptr = Len(record)
           /\ dec.value = obj.value
           /\ dec.access = obj.access

\* C18: a Breakpoint with an address, a size, a type, an implementation, an
\* enabled flag, a core or none and an action that is one flag or several
\* combined can be constructed and serialized, and deserialize of its record
\* returns with the same address, size, type, implementation, action, enabled
\* flag and core
C18_BreakpointRoundTrip ==
    (codec = "Breakpoint" /\ dec.pc \in {"return", "raise"})
        => /\ dec.pc = "return"
           /\ dec.self.address = obj.address
           /\ dec.self.size = obj.size
           /\ dec.self.type_ = obj.type_
           /\ dec.self.impl = obj.impl
           /\ dec.self.action = obj.action
           /\ dec.self.enabled = obj.enabled
           /\ dec.self.core = obj.core

\* C19: _deserialize of the record _serialize made of a Register that has a
\* name, a unit, a core or none and an integer value of 64 bits, negative or
\* not, or a floating point value returns the position of the end marker
\* and yields the same name, unit, value, fvalue and core
C19_RegisterRoundTrip ==
    (codec = "Register" /\ dec.pc \in {"return", "raise"})
        => /\ dec.pc = "return"
           /\ Slice(record, dec.read_ptr, dec.read_ptr + 2) = XX
           /\ dec.self.name = obj.name
           /\ dec.self.unit = obj.unit
           /\ dec.self.value = obj.value
           /\ dec.self.fvalue = obj.fvalue
           /\ dec.self.core = obj.core

\* what the test of the loop compares the read pointer with
C20_Limit ==
    IF codec = "exp" THEN int_from_bytes(Slice(record, 2, 4)) ELSE Len(record)

\* an iteration stops the loop, or the read pointer was below the limit and
\* is further on after it
C20_Advances ==
    dec.pc = "loop"
        => \/ dec'.pc \in {"return", "raise"}
           \/ dec.read_ptr < C20_Limit /\ dec'.read_ptr > dec.read_ptr

\* the decoding of a record its serializer made has stopped at an XX marker,
\* within the record
C20_StopsAtMarker ==
    (codec \in {"Address", "Breakpoint", "Symbol"} /\ obj # PyNone /\ record # None
       /\ dec.pc \in {"return", "raise"})
        => /\ dec.read_ptr >= 2
           /\ dec.read_ptr <= Len(record)
           /\ Slice(record, dec.read_ptr - 2, dec.read_ptr) = XX

\* C20: every iteration of the decode loops of Address.deserialize,
\* Breakpoint.deserialize, Symbol.deserialize and
\* t32_exp_deserialize_response stops the loop or advances the read pointer,
\* which the loop test bounds, so that every call returns or raises; and on a
\* record the matching serializer made the decoding stops at the XX marker
\* with a read pointer that is not past the record's end
C20_DecodeTotal == [][C20_Advances]_vars /\ []C20_StopsAtMarker

\* the ids a decoder compares the id of a field with
C21_Known ==
    IF codec = "Address" THEN {AC, WI, CO, SI, IM, AT, MU, TU, XX}
    ELSE IF codec = "Breakpoint" THEN {SZ, AD, TY, DM, IM, jj, hh, CA, EN, CO, XX}
    ELSE IF codec = "Symbol" THEN {AD, NM, PT, SZ, NE, XX}
    ELSE IF codec = "exp" THEN {EM, EC, PL}
    ELSE {NM, TY, VA, FV, CO, XX}

\* a loop is about to read the id of a field at the read pointer
C21_AtField == dec.pc = "loop" /\ dec.read_ptr < C20_Limit

\* the id the loop reads
C21_Id == Slice(record, dec.read_ptr, dec.read_ptr + 2)

\* an iteration that reads an id the decoder does not know raises and leaves
\* the fields as they were; one that reads hh in a Breakpoint record moves
\* the read pointer past the id and two more bytes and changes nothing else
C21_Iteration ==
    /\ (C21_AtField /\ C21_Id \notin C21_Known)
           => dec' = [dec EXCEPT !.pc = "raise", !.exc = dec'.exc,
                                 !.read_ptr = dec'.read_ptr]
    /\ (C21_AtField /\ codec = "Breakpoint" /\ C21_Id = hh)
           => dec' = [dec EXCEPT !.read_ptr = dec.read_ptr + 4]

\* the decoding of a register or of a list of registers from a buffer that
\* begins with an id it does not know has raised
C21_Registers ==
    (codec \in {"Register", "registers"} /\ dec.pc \in {"return", "raise"}
       /\ Len(record) >= 2 /\ Slice(record, 0, 2) \notin C21_Known)
        => dec.pc = "raise"

\* C21: a decoder of Address, Breakpoint, Symbol, Register, the register
\* list or the exp response that meets an id it does not know fails and
\* applies no later field; only hh in a Breakpoint record is skipped, with
\* its two bytes, and changes no field
C21_UnknownTagFatal == [][C21_Iteration]_vars /\ []C21_Registers

\* C22: Symbol.deserialize of the optional fields AD, NM, NE, PT and SZ in
\* whatever order, followed by XX, returns, and the symbol has the address,
\* the path and the size of the fields and the NM string followed by the NE
\* string as its name
C22_OrderIndependent ==
    (codec = "Symbol" /\ dec.pc \in {"return", "raise"})
        => /\ dec.pc = "return"
           /\ dec.self = obj

\* the request of t32_writebreakpointobj for breakpoint bp with message id
\* msg_id, its payload starting with the two bytes head
C23_Request(bp, head, msg_id) ==
    LET bp_stream == breakpoint_serialize(bp).bytes
        payload == head \o hh \o to_bytes(Len(bp_stream), 2) \o bp_stream
    IN envelope(RAPI_CMD_DEVICE_SPECIFIC, RAPI_DSCMD_BREAKPOINT_OBJ_WRITE, msg_id,
                payload, 3 + Len(payload), FALSE).send_data

C23_Requests ==
    method.pc # "idle" =>
        LET n == Len(method_requests)
        IN /\ n <= 2
           /\ method.pc = "delete" => n = 1
           /\ method.pc = "write" => n = 2
           /\ n >= 1 => method_requests[1]
                            = C23_Request(method.self, <<0, 0>>, method_requests[1][4])
           /\ n = 2 => method_requests[2]
                           = C23_Request([method.self EXCEPT !.enabled = method.enabled],
                                         <<1, 0>>, (method_requests[1][4] + 1) % 255)
           /\ n < 2 => obj.enabled = method.self.enabled

C23_AfterDelete ==
    method.pc = "delete" /\ method'.pc # "delete" =>
        IF result.kind = "raise"
        THEN method'.pc = "done" /\ method_requests' = method_requests /\ obj' = obj
        ELSE Len(method_requests') = 2 /\ obj'.enabled = method.enabled

\* C23: Breakpoint.enable() and Breakpoint.disable() hand at most two
\* requests to the transport: first the delete request for the breakpoint as
\* it was, then the write request for the breakpoint with the new enabled
\* flag, under the next message id (modulo 255); when the delete fails no
\* write request follows and the enabled flag is the one of before, and when
\* it succeeds the write request follows.
C23_DeleteThenWrite == []C23_Requests /\ [][C23_AfterDelete]_vars

\* a disable() or enable() that ended after both requests and changed the flag
C23_Witness ==
    /\ method.pc = "done"
    /\ Len(method_requests) = 2
    /\ method_result.kind = "return"
    /\ obj.enabled # method.self.enabled

\* the notifications pending when t32_checkstatenotify was called, in the
\* order they arrived: those queued, then those on the socket
C24_Pending ==
    method.arrived.notify_queue
        \o (IF obj._link = "CommunicationUdp"
            THEN [i \in 1..Len(method.arrived.pending) |->
                      SliceFrom(method.arrived.pending[i], 7)]
            ELSE tcp_poll_response(<<>>, <<>>, <<>>,
                                   Concat(method.arrived.pending)).notify_queue)

\* the function registered for notification n, if there is one
C24_Registered(n) ==
    IF n[2] = T32_E_ONEVENT
    THEN IF SliceFrom(n, 16) \in obj._eventlist
         THEN <<[event_function |-> SliceFrom(n, 16)]>> ELSE <<>>
    ELSE IF n[2] \in obj._notification_callback
    THEN <<[callback_func |-> n[2]]>> ELSE <<>>

\* the functions t32_checkstatenotify has called, in order
C24_Called ==
    [i \in 1..Len(method.calls) |->
        IF "args" \in DOMAIN method.calls[i]
        THEN [callback_func |-> method.calls[i].callback_func]
        ELSE method.calls[i]]

\* C24: when t32_checkstatenotify ends it has returned, no notification is
\* left in the queue or on the socket, and the functions it called are, in
\* arrival order and once each, the ones registered for the pending
\* notifications: for an ON-EVENT notification the function registered under
\* the event's name, for another the callback of its event type; a
\* notification with nothing registered calls nothing and raises nothing.
C24_Drained ==
    (method.name = "t32_checkstatenotify" /\ method.pc = "done") =>
        /\ method_result.kind = "return"
        /\ notify_queue = <<>>
        /\ reads.pending = <<>>
        /\ C24_Called = Concat([i \in 1..Len(C24_Pending) |->
                                       C24_Registered(C24_Pending[i])])

\* the notifications of the stream, in the order they arrive
C25_Arrive ==
    tcp_poll_response(<<>>, <<>>, <<>>, Concat(reads.done \o reads.pending)).notify_queue

\* the notifications receive_notify_message has returned, in order
C25_Returned == IF method = NoMethod THEN <<>> ELSE method.returned

\* every read of the socket so far was made by receive()
C25_ReadByReceive == method = NoMethod \/ ~method.direct

\* the notifications returned and those queued are, in this order, the first
\* notifications of the stream, and all of them once receive() has read all
C25_Notifications ==
    C25_ReadByReceive =>
        LET out == C25_Returned \o notify_queue
        IN /\ Len(out) <= Len(C25_Arrive)
           /\ out = SubSeq(C25_Arrive, 1, Len(out))
           /\ (reads.pending = <<>> => out = C25_Arrive)

\* a receive() that returns, returns the response to its call
C25_Response ==
    (pc = "receive" /\ pc' = "idle" /\ result'.kind = "return" /\ C25_ReadByReceive) =>
        result'.value = <<10 + recv_message_id>>

\* C25: the notifications that arrive while receive() waits for a response
\* are queued and later returned by receive_notify_message in the order they
\* arrived, none lost and none twice, and receive() returns the response to
\* its call whatever notifications arrive around it.
C25_Demultiplexed == []C25_Notifications /\ [][C25_Response]_vars

\* C26: no request that t32_readmemoryobj or t32_writememoryobj hands to the
\* transport (envelope, chunk-size field, address parameters and chunk data)
\* is longer than the maximum packet size.
C26_WithinPacketSize ==
    method.name \in {"t32_writememoryobj", "t32_readmemoryobj"} =>
        \A i \in 1..Len(method_requests) : Len(method_requests[i]) <= method._maxpacketsize

\* the chunk bytes of the datagrams sent
C28_Chunks == Concat([i \in 1..Len(method_requests) |-> SliceFrom(method_requests[i], 4)])

\* C28: a transmit of n bytes with packet length p > 4 that returns has sent
\* ceil((n+5)/(p-4)) datagrams whose chunks together are five zero bytes and
\* the payload; all but the last carry flag 1, the last flag 0; their block
\* ids are consecutive modulo 65536 from the transmit block id, which
\* advances by the number of datagrams; none is longer than p.
C28_TransmitChunking ==
    (method.name = "transmit" /\ method_result.kind = "return") =>
        LET n == Len(method.data)
            p == method.self._packlen
            k == Len(method_requests)
        IN /\ k = (n + 5 + (p - 4) - 1) \div (p - 4)
           /\ C28_Chunks = Zeros(5) \o method.data
           /\ \A i \in 1..k :
                 /\ method_requests[i][1] = T32_API_NORMAL_TRANSMIT
                 /\ method_requests[i][2] = (IF i < k THEN 1 ELSE 0)
                 /\ int_from_bytes(Slice(method_requests[i], 2, 4))
                        = (method.self._transmit_block_id + i - 1) % 65536
                 /\ Len(method_requests[i]) <= p
           /\ obj._transmit_block_id = (method.self._transmit_block_id + k) % 65536

\* a transmit of several datagrams whose block ids wrap around
C28_Witness ==
    /\ method.name = "transmit"
    /\ method_result.kind = "return"
    /\ Len(method_requests) >= 3
    /\ obj._transmit_block_id < method.self._transmit_block_id

\* C27: a response datagram delivered a second time, block id and all, adds
\* nothing to the reassembly buffer and nothing to the response queue.
C27_Step ==
    (/\ reads.done # <<>>
     /\ reads'.done = Append(reads.done, reads.done[Len(reads.done)])
     /\ Len(reads.done[Len(reads.done)]) >= HEADER_LEN_SHORT
     /\ reads.done[Len(reads.done)][1] = T32_API_RECEIVE) =>
        /\ socket_content' = socket_content
        /\ response_queue' = response_queue

C27_DuplicateDropped == [][C27_Step]_vars

\* the datagrams delivered are one message of the class: all of the class
\* and long enough for their header, the last complete, the others incomplete
C29_OneMessage(class) ==
    /\ reads.done # <<>>
    /\ \A i \in 1..Len(reads.done) :
          /\ Len(reads.done[i]) >= (IF i = 1 THEN HEADER_LEN_LONG ELSE HEADER_LEN_SHORT)
          /\ reads.done[i][1] = class
          /\ reads.done[i][2] = (IF i = Len(reads.done) THEN MESSAGE_COMPLETE
                                 ELSE MESSAGE_INCOMPLETE)

\* the payloads of the datagrams delivered, 7 header bytes stripped from the
\* first and 4 from the others
C29_Payload ==
    Concat([i \in 1..Len(reads.done) |->
               SliceFrom(reads.done[i],
                         IF i = 1 THEN HEADER_LEN_LONG ELSE HEADER_LEN_SHORT)])

C29_Reassembled ==
    /\ C29_OneMessage(T32_API_RECEIVE) =>
          /\ response_queue = <<C29_Payload>>
          /\ notify_queue = <<>>
          /\ socket_content = <<>>
    /\ C29_OneMessage(T32_API_NOTIFICATION) =>
          /\ notify_queue = <<C29_Payload>>
          /\ response_queue = <<>>
          /\ socket_content = <<>>

\* the datagram a step delivers
C29_Delivered == reads'.done[Len(reads'.done)]

C29_Others ==
    (reads'.done # reads.done /\ Len(C29_Delivered) >= 2) =>
        /\ C29_Delivered[2] = HANDSHAKE /\ C29_Delivered[1] # 43 =>
              /\ method_requests' = <<udp_handshake>>
              /\ UNCHANGED <<socket_content, response_queue, notify_queue>>
        /\ C29_Delivered[1] = 43 =>
              /\ method_requests' = <<>>
              /\ UNCHANGED <<socket_content, response_queue, notify_queue>>

\* C29: k-1 incomplete datagrams and a complete one, all responses (or all
\* notifications), put one message in the response (notification) queue, the
\* payloads joined, 7 header bytes stripped from the first and 4 from the
\* others, and leave the reassembly buffer empty; a handshake-needed
\* datagram only sends the handshake reply, and one starting with '+' sends
\* nothing; neither changes the buffer or the queues.
C29_Reassembly == []C29_Reassembled /\ [][C29_Others]_vars

\* the frames in front of the first one that is neither a response nor a
\* notification
C30_Valid ==
    LET bad == {i \in 1..Len(obj) : obj[i].message_type \notin {RCL_RESP, RCL_NOTIFY}}
    IN SubSeq(obj, 1, IF bad = {} THEN Len(obj)
                      ELSE (CHOOSE i \in bad : \A j \in bad : i <= j) - 1)

RECURSIVE C30_Payloads(_, _)
\* the payloads of the frames of fs of the message type, in order
C30_Payloads(fs, message_type) ==
    IF fs = <<>> THEN <<>>
    ELSE (IF Head(fs).message_type = message_type THEN <<Head(fs).payload>> ELSE <<>>)
             \o C30_Payloads(Tail(fs), message_type)

\* C30: one poll_response on a read of k complete frames back to back puts
\* the payload of every frame, in stream order, in the queue of its message
\* type, responses and notifications; a frame of another type raises
\* ConnectionError, the frames in front of it dispatched.
C30_AllDispatched ==
    reads.pending = <<>> =>
        /\ response_queue = C30_Payloads(C30_Valid, RCL_RESP)
        /\ notify_queue = C30_Payloads(C30_Valid, RCL_NOTIFY)
        /\ IF Len(C30_Valid) = Len(obj)
           THEN result.kind # "raise" /\ socket_content = <<>>
           ELSE result = Raise("ConnectionError")

\* a read of three frames, responses and notifications, has been dispatched
C30_Witness ==
    /\ reads.pending = <<>>
    /\ Len(obj) = 3
    /\ Len(response_queue) + Len(notify_queue) = 3
    /\ response_queue # <<>>
    /\ notify_queue # <<>>

\* a CommunicationUdp.connect that sent its request and got some reply from recv
C31_Replied ==
    /\ codec = "CommunicationUdp"
    /\ method.name = "connect"
    /\ method.socket = "None"
    /\ method.failing \in {"", "recv"}
    /\ method_requests # <<>>

\* the reply is the request echoed with the sync-ack-back marker
C31_Echo ==
    /\ method.failing = ""
    /\ method.data # <<>>
    /\ method.data[1] = T32_API_SYNCACKN_BACK
    /\ Tail(method.data) = Tail(method_requests[1])

\* C31: CommunicationUdp.connect succeeds exactly when the reply starts with
\* 0x13 and its other bytes equal those of the connect request sent, and then
\* the receive block id is the block id of the reply; in every other case,
\* recv failing included, it raises ApiConnectionInitError.
C31_HandshakeValidated ==
    C31_Replied =>
        IF C31_Echo
        THEN /\ method_result = Return(<<>>)
             /\ receive_block_id = int_from_bytes(Slice(method.data, 2, 4))
        ELSE method_result = Raise("ApiConnectionInitError")

\* receive takes from the response queue a response that carries the id of
\* the request before the one it waits for
C32_Stale ==
    /\ pc = "receive"
    /\ message_id >= 2
    /\ response_queue # <<>>
    /\ response_queue' = Tail(response_queue)
    /\ Len(Head(response_queue)) >= 2
    /\ Head(response_queue)[1] # T32_API_KEEPALIVE
    /\ Head(response_queue)[2] = get_message_id(message_id - 1)

C32_Discarded == C32_Stale => (pc' = "receive" /\ UNCHANGED result)

\* C32: a response that carries the id of an earlier request of the session
\* is discarded by receive and never raises ConnectionError, for every value
\* of the message-id counter, the wrap from 254 to 0 included.
C32_StaleDiscarded == [][C32_Discarded]_vars

\* receive_notify_message finds the notification queue empty and reads from
\* the socket one whole frame that is the response to a request made
C33_ReadsResponse ==
    /\ pc = "idle"
    /\ method'.name = "receive_notify_message"
    /\ notify_queue = <<>>
    /\ socket_content = <<>>
    /\ reads.pending # <<>>
    /\ reads'.pending = Tail(reads.pending)
    /\ \E mid \in 1..message_id :
          Head(reads.pending) = PeerFrame(RCL_RESP, StreamResponse(mid))

\* the response read is in the response queue afterwards, where receive
\* looks for it
C33_Kept ==
    C33_ReadsResponse =>
        \E i \in 1..Len(response_queue') :
            PeerFrame(RCL_RESP, response_queue'[i]) = Head(reads.pending)

\* C33: a response that receive_notify_message reads from the socket while
\* the notification queue is empty stays available to a later receive for its
\* message id.
C33_ResponseKept == [][C33_Kept]_vars

\* the datagrams delivered are responses and notifications, complete or not
C34_Messages ==
    \A i \in 1..Len(reads.done) :
        /\ Len(reads.done[i]) >= HEADER_LEN_SHORT
        /\ reads.done[i][1] \in {T32_API_RECEIVE, T32_API_NOTIFICATION}
        /\ reads.done[i][2] \in {MESSAGE_COMPLETE, MESSAGE_INCOMPLETE}

RECURSIVE C34_Alone(_, _, _)
\* the queues after extract_message has been given, of the datagrams ds, only
\* those of one class
C34_Alone(ds, class, st) ==
    IF ds = <<>> THEN st
    ELSE C34_Alone(Tail(ds), class,
                   IF Head(ds)[1] = class THEN udp_extract_message(Head(ds), st) ELSE st)

C34_Start == [socket_content |-> <<>>, response_queue |-> <<>>, notify_queue |-> <<>>]

\* C34: the messages in the response queue are made of the response
\* datagrams alone and those in the notification queue of the notification
\* datagrams alone, however the datagrams of the two classes interleave.
C34_ClassesApart ==
    C34_Messages =>
        /\ response_queue = C34_Alone(reads.done, T32_API_RECEIVE, C34_Start).response_queue
        /\ notify_queue = C34_Alone(reads.done, T32_API_NOTIFICATION, C34_Start).notify_queue

\* CommunicationUdp.connect raised ApiConnectionInitError, or the connect of
\* the TCP socket failed
C35_Failed ==
    /\ method.name = "connect"
    /\ \/ codec = "CommunicationUdp" /\ method_result = Raise("ApiConnectionInitError")
       \/ codec = "CommunicationTcp" /\ method.failing = "connect"
                                      /\ method_result.kind = "raise"

\* C35: after a CommunicationUdp.connect that raised ApiConnectionInitError
\* and after a failed connect of the TCP socket the socket handle is None, so
\* that the next connect makes a real attempt.
C35_FailedConnectDisconnected == C35_Failed => socket = "None"

\* after exit the socket handle is None
C39_Closed == method.name = "exit" => socket = "None"

\* an exit on a link without socket sends nothing and changes nothing of
\* the link; a connect that follows an exit and succeeds starts with the
\* reassembly buffer and both queues empty
C39_Step ==
    /\ (socket = "None" /\ method'.name = "exit") =>
           (method_requests' = <<>> /\ UNCHANGED <<linkVars, syncVars, codecVars>>)
    /\ (method.name = "exit" /\ method'.name = "connect"
            /\ method_result'.kind = "return") =>
           /\ socket_content' = <<>>
           /\ response_queue' = <<>>
           /\ notify_queue' = <<>>

\* C39: after exit() the socket handle is None and a second exit() does
\* nothing; after exit() followed by connect() the reassembly buffer, the
\* response queue and the notification queue are empty.
C39_SessionCleared == []C39_Closed /\ [][C39_Step]_vars

\* the first datagram made extract_message raise ConnectionError, and the
\* second is a complete response or notification with a full header
C40_AfterError ==
    /\ Len(reads.done) = 1
    /\ method_result = Raise("ConnectionError")
    /\ Len(reads'.done) = 2
    /\ Len(reads'.done[2]) >= HEADER_LEN_LONG
    /\ reads'.done[2][1] \in {T32_API_RECEIVE, T32_API_NOTIFICATION}
    /\ reads'.done[2][2] = MESSAGE_COMPLETE

C40_Intact ==
    C40_AfterError =>
        LET payload == SliceFrom(reads'.done[2], HEADER_LEN_LONG)
        IN IF reads'.done[2][1] = T32_API_RECEIVE
           THEN response_queue' = <<payload>> /\ notify_queue' = <<>>
           ELSE notify_queue' = <<payload>> /\ response_queue' = <<>>

\* C40: after extract_message raised ConnectionError for a datagram of
\* unknown class the bytes of that datagram are not in the reassembly buffer
\* any more, so the next well-formed message is put in its queue intact.
C40_BufferNotPoisoned ==
    [](method_result = Raise("ConnectionError") => socket_content = <<>>)
        /\ [][C40_Intact]_vars

\* the last request of the bundle that was put on the socket
C36_LastTransmitted == yielded[transmitted]

\* C36: when _execute with release_debug_port=True has ended, by return or
\* by an exception, and has transmitted a request, the last request
\* transmitted ends with the release flag 0x00.
C36_PortReleased ==
    (exec_pc = "done" /\ release_debug_port /\ transmitted >= 1) =>
        C36_LastTransmitted.payload[Len(C36_LastTransmitted.payload)] = 0

\* a request of a chunked transfer has been answered and the loop goes on
C37_Answered ==
    /\ method.name \in {"t32_writememoryobj", "t32_readmemoryobj"}
    /\ method.pc = "call"
    /\ method'.pc = "loop"

C37_Progress ==
    C37_Answered =>
        /\ method.chunk_size >= 1
        /\ method'.remaining_size = method.remaining_size - method.chunk_size
        /\ method'.remaining_size >= 0

\* C37: every request of t32_readmemoryobj and t32_writememoryobj moves at
\* least one byte and no more than what remains, so that a transfer whose
\* requests are all answered ends after finitely many of them.
C37_ChunksTerminate == [][C37_Progress]_vars

\* what the frames of the whole stream hold, framing honoured
C38_Stream == tcp_poll_response(<<>>, <<>>, <<>>, Concat(reads.done \o reads.pending))

\* the stream consists of whole notification frames, and no call of the API
\* has been made: receive_notify_message alone reads the socket
C38_Polling ==
    /\ message_id = 0
    /\ C38_Stream.response_queue = <<>>
    /\ C38_Stream.socket_content = <<>>
    /\ C38_Stream.raised = ""

\* the notifications receive_notify_message has returned, in order
C38_Returned == IF method = NoMethod THEN <<>> ELSE method.returned

\* C38: however the reads split or join the frames of a stream of
\* notifications, receive_notify_message returns each notification once, in
\* order and with its declared payload, and drops no byte: what it has
\* returned so far are the first notifications of the stream, and all but
\* those still queued or buffered once the stream has been read.
C38_FramingHonoured ==
    C38_Polling =>
        /\ Len(C38_Returned) <= Len(C38_Stream.notify_queue)
        /\ C38_Returned = SubSeq(C38_Stream.notify_queue, 1, Len(C38_Returned))
        /\ (reads.pending = <<>> /\ socket_content = <<>>) =>
               C38_Returned \o notify_queue = C38_Stream.notify_queue
====
